---- MODULE Spec2Model ----
(***************************************************************************)
(* Model of movie-times: the date utilities (utils/date_utils.py), the     *)
(* schedule normalization (bots/showtime_bot.py, process_events) and the   *)
(* result cache (cache/cache_layer.py, app.py).                            *)
(*                                                                         *)
(* Strings are sequences of Unicode code points, so that Python's lexical  *)
(* order on str is the lexicographic order on these sequences.  A date is  *)
(* the tuple <<year, month, day>>; tuples compare as Python dates do.      *)
(* None, the empty string and the empty dict are the empty sequence.       *)
(***************************************************************************)
EXTENDS Integers, Sequences, FiniteSets, TLC

VARIABLES
    pc,                 \* the step the running scenario has reached
    today,              \* what date.today() returns
    date_str,           \* a date label, input of parse_date_from_string
    dt_obj,             \* a date, input of format_date_with_weekday
    parsed,             \* result of parse_date_from_string
    times_map,          \* {label: [times]}, input of filter_by_date
    date_mode,          \* "all" / "single" / "range"
    date_value,         \* None / date / (start, end)
    filtered,           \* result of filter_by_date
    captured_events,    \* raw events, input of process_events
    captured_venues,    \* {venue id: name}, input of process_events
    selected_cinemas,   \* the theater names the user selected
    results,            \* result of process_events
    cache_fn,           \* the cached entry point that is exercised
    now,                \* the cache's clock, in seconds
    cache_entries,      \* the entries st.cache_data holds for cache_fn
    cache_hist,         \* per key: when it was last stored, cleared since?
    last_call,          \* the latest call of cache_fn and how it was served
    is_cloud,           \* config.IS_CLOUD
    method,             \* the acquisition method that is running
    browser,            \* "none" / "open" / "closed": the launched browser
    steps,              \* the strategy steps taken so far, in order
    movies,             \* {movie name: id} / [movie name], a catalog result
    cinemas,            \* {theater: code} / [theater], a catalog result
    todo,               \* the theaters the per-theater loop has yet to visit
    ret,                \* what the method returned
    cf_round,           \* _wait_for_cloudflare: rounds of the loop begun
    cf_seen,            \* _wait_for_cloudflare: the page texts read so far
    cf_result,          \* _wait_for_cloudflare: the value returned
    goto_url,           \* goto_safe: the url argument
    goto_calls,         \* goto_safe: the page.goto calls made, in order
    goto_out,           \* goto_safe: "" / "returned" / "raised"
    worker_url,         \* config.SHOWTIME_WORKER_URL
    worker_secret,      \* config.SHOWTIME_WORKER_SECRET
    http_url,           \* showtime_api_get: the url argument
    http_request,       \* showtime_api_get: the request it issued
    http_status,        \* showtime_api_get: the status of the response
    http_out,           \* showtime_api_get: "" / "json" / the error raised
    siblings,           \* the children of the target movie's container
    tag_at,             \* the index of date_tag among them, 0 before the loop
    next_elem,          \* the index of next_elem, 0 for None
    times_list,         \* the times collected for date_tag
    date_times,         \* {date label: [times]}, the result for the theater
    consumed,           \* the blocks read: <<index of tag, index of block>>
    dict_heap,          \* the dict objects in memory, by address
    list_heap,          \* the list objects in memory, by address
    cached_at,          \* the address of the schedule the cache returned
    snapshot,           \* the value of that schedule when it was returned
    view_at,            \* the address of the latest filtered_results, 0: none
    view_mode,          \* date_mode_key of the latest view
    view_value,         \* date_filter_value of the latest view
    views               \* the number of views shown

dateVars == <<date_str, dt_obj, parsed>>
filterVars == <<times_map, date_mode, date_value, filtered>>
eventVars == <<captured_events, captured_venues, selected_cinemas, results>>
cacheVars == <<cache_fn, now, cache_entries, cache_hist, last_call>>
acqVars == <<is_cloud, method, browser, steps, movies, cinemas, todo, ret>>
cfVars == <<cf_round, cf_seen, cf_result>>
gotoVars == <<goto_url, goto_calls, goto_out>>
httpVars == <<worker_url, worker_secret, http_url, http_request,
              http_status, http_out>>
walkVars == <<siblings, tag_at, next_elem, times_list, date_times, consumed>>
viewVars == <<dict_heap, list_heap, cached_at, snapshot, view_at, view_mode,
              view_value, views>>
utilVars == <<gotoVars, httpVars, walkVars, viewVars>>
vars == <<pc, today, dateVars, filterVars, eventVars, cacheVars, acqVars,
          cfVars, utilVars>>

\* what a scenario leaves alone
OutsideDate ==
    <<filterVars, eventVars, cacheVars, acqVars, cfVars, utilVars>>
OutsideFilter ==
    <<dateVars, eventVars, cacheVars, acqVars, cfVars, utilVars>>
OutsideEvents ==
    <<dateVars, filterVars, cacheVars, acqVars, cfVars, utilVars>>
OutsideCache ==
    <<today, dateVars, filterVars, eventVars, acqVars, cfVars, utilVars>>
OutsideAcquire ==
    <<today, dateVars, filterVars, cacheVars, cfVars, utilVars>>
OutsideChallenge ==
    <<today, dateVars, filterVars, eventVars, cacheVars, acqVars, utilVars>>
OutsideHttp ==
    <<today, dateVars, filterVars, eventVars, cacheVars, acqVars, cfVars,
      gotoVars, walkVars, viewVars>>
OutsideWalk ==
    <<today, dateVars, filterVars, eventVars, cacheVars, acqVars, cfVars,
      gotoVars, httpVars, viewVars>>
OutsideView ==
    <<today, dateVars, filterVars, eventVars, cacheVars, acqVars, cfVars,
      gotoVars, httpVars, walkVars>>
\* the navigation steps of the schedule query run goto_safe
OutsideNavigate ==
    <<today, dateVars, filterVars, cacheVars, cfVars, httpVars, walkVars,
      viewVars>>

None == <<>>

-----------------------------------------------------------------------------
(* Characters *)

Yue == 26376            \* the character U+6708 (month)
Ri == 26085             \* the character U+65E5 (day; also Sunday's name)
ChZero == 48            \* "0"
ChLParen == 40          \* "("
ChRParen == 41          \* ")"

IsDigit(c) == c \in ChZero..(ChZero + 9)

RECURSIVE int(_)
\* int(str) of a run of decimal digits
int(ds) ==
    IF ds = <<>> THEN 0
    ELSE 10 * int(SubSeq(ds, 1, Len(ds) - 1)) + (ds[Len(ds)] - ChZero)

RECURSIVE str(_)
\* str(n) / f"{n}" of a natural number: decimal, no padding
str(n) ==
    IF n < 10 THEN <<ChZero + n>>
    ELSE str(n \div 10) \o <<ChZero + (n % 10)>>

\* "%H:%M": two digits each
Clock(h, m) ==
    <<ChZero + (h \div 10), ChZero + (h % 10), 58,
      ChZero + (m \div 10), ChZero + (m % 10)>>

RECURSIVE SeqLess(_, _)
\* Python's < on str and on tuples: lexicographic, a proper prefix is smaller
SeqLess(a, b) ==
    IF b = <<>> THEN FALSE
    ELSE IF a = <<>> THEN TRUE
    ELSE IF a[1] # b[1] THEN a[1] < b[1]
    ELSE SeqLess(Tail(a), Tail(b))

SeqLeq(a, b) == a = b \/ SeqLess(a, b)

-----------------------------------------------------------------------------
(* datetime.date *)

Year(d) == d[1]
Month(d) == d[2]
Day(d) == d[3]

IsLeap(y) == y % 4 = 0 /\ (y % 100 # 0 \/ y % 400 = 0)

DaysInMonth(y, m) ==
    IF m = 2 THEN (IF IsLeap(y) THEN 29 ELSE 28)
    ELSE IF m \in {4, 6, 9, 11} THEN 30 ELSE 31

\* date(year, month, day) raises ValueError exactly when this is false
ValidDate(y, m, d) ==
    /\ y \in 1..9999
    /\ m \in 1..12
    /\ d >= 1 /\ d <= DaysInMonth(y, m)

RECURSIVE DaysBeforeMonth(_, _)
DaysBeforeMonth(y, m) ==
    IF m = 1 THEN 0 ELSE DaysBeforeMonth(y, m - 1) + DaysInMonth(y, m - 1)

\* date.toordinal(): 1 for 0001-01-01
toordinal(d) ==
    LET y1 == Year(d) - 1
    IN  y1 * 365 + (y1 \div 4) - (y1 \div 100) + (y1 \div 400)
        + DaysBeforeMonth(Year(d), Month(d)) + Day(d)

\* date.weekday(): Monday is 0
weekday(d) == (toordinal(d) + 6) % 7

\* date.max, the sort key of a label that does not parse
DateMax == <<9999, 12, 31>>

-----------------------------------------------------------------------------
(* utils/date_utils.py *)

WEEKDAY_NAMES == <<19968, 20108, 19977, 22235, 20116, 20845, 26085>>

format_date_with_weekday(d) ==
    LET wd == WEEKDAY_NAMES[weekday(d) + 1]
    IN  str(Month(d)) \o <<Yue>> \o str(Day(d)) \o <<Ri, ChLParen, wd, ChRParen>>

NoMatch == <<>>

DigitsAt(s, i, n) ==
    i + n - 1 <= Len(s) /\ \A k \in i..(i + n - 1) : IsDigit(s[k])

CharAt(s, i, c) == i <= Len(s) /\ s[i] = c

\* r"(\d{1,2})<Yue>(\d{1,2})<Ri>" tried at position i only.  Each \d{1,2} is
\* greedy: two digits first, one digit on backtracking.  The value is the two
\* groups, or NoMatch.
MatchAt(s, i) ==
    LET ok(a, b) == /\ DigitsAt(s, i, a)
                    /\ CharAt(s, i + a, Yue)
                    /\ DigitsAt(s, i + a + 1, b)
                    /\ CharAt(s, i + a + 1 + b, Ri)
        groups(a, b) == <<SubSeq(s, i, i + a - 1),
                          SubSeq(s, i + a + 1, i + a + b)>>
    IN  IF ok(2, 2) THEN groups(2, 2)
        ELSE IF ok(2, 1) THEN groups(2, 1)
        ELSE IF ok(1, 2) THEN groups(1, 2)
        ELSE IF ok(1, 1) THEN groups(1, 1)
        ELSE NoMatch

RECURSIVE re_search(_, _)
\* re.search: the match at the leftmost position that has one
re_search(s, i) ==
    IF i > Len(s) THEN NoMatch
    ELSE IF MatchAt(s, i) # NoMatch THEN MatchAt(s, i)
    ELSE re_search(s, i + 1)

\* a variant: a label of the current month is taken for next year
YearFor_strict(month) ==
    IF month > Month(today) THEN Year(today) ELSE Year(today) + 1

YearFor(month) ==
    IF month >= Month(today) THEN Year(today) ELSE Year(today) + 1

parse_date_from_string(s) ==
    LET match == re_search(s, 1)
    IN  IF match # NoMatch
        THEN LET month == int(match[1])
                 day == int(match[2])
                 year == YearFor(month)
             IN  IF ValidDate(year, month, day)
                 THEN <<year, month, day>>
                 ELSE None
        ELSE None

-----------------------------------------------------------------------------
(* dict: insertion-ordered, one entry <<key, value>> per key *)

dict_keys(d) == [i \in 1..Len(d) |-> d[i][1]]

dict_has(d, k) == \E i \in 1..Len(d) : d[i][1] = k

dict_get(d, k) == d[CHOOSE i \in 1..Len(d) : d[i][1] = k][2]

\* d[k] = v: a new key goes last, a known key keeps its place
dict_set(d, k, v) ==
    IF dict_has(d, k)
    THEN [i \in 1..Len(d) |-> IF d[i][1] = k THEN <<k, v>> ELSE d[i]]
    ELSE Append(d, <<k, v>>)

Entries(d) == {d[i] : i \in 1..Len(d)}

Truthy(v) == v # None

\* a variant: a label that does not parse is filtered out
filter_entry_dropsUnparsed(acc, label, times, mode, value) ==
    LET p == parse_date_from_string(label)
    IN  IF p = None THEN acc
        ELSE IF mode = "single" /\ Truthy(value)
        THEN (IF p = value THEN dict_set(acc, label, times) ELSE acc)
        ELSE IF mode = "range" /\ Truthy(value)
        THEN (IF SeqLeq(value[1], p) /\ SeqLeq(p, value[2])
              THEN dict_set(acc, label, times) ELSE acc)
        ELSE acc

\* a variant: the end of a range is exclusive
filter_entry_openEnd(acc, label, times, mode, value) ==
    LET p == parse_date_from_string(label)
    IN  IF p = None THEN dict_set(acc, label, times)
        ELSE IF mode = "single" /\ Truthy(value)
        THEN (IF p = value THEN dict_set(acc, label, times) ELSE acc)
        ELSE IF mode = "range" /\ Truthy(value)
        THEN (IF SeqLeq(value[1], p) /\ SeqLess(p, value[2])
              THEN dict_set(acc, label, times) ELSE acc)
        ELSE acc

\* the body of "for date_str, times in times_map.items()" for one entry
filter_entry(acc, label, times, mode, value) ==
    LET p == parse_date_from_string(label)
    IN  IF p = None THEN dict_set(acc, label, times)
        ELSE IF mode = "single" /\ Truthy(value)
        THEN (IF p = value THEN dict_set(acc, label, times) ELSE acc)
        ELSE IF mode = "range" /\ Truthy(value)
        THEN (IF SeqLeq(value[1], p) /\ SeqLeq(p, value[2])
              THEN dict_set(acc, label, times) ELSE acc)
        ELSE acc

RECURSIVE filter_loop(_, _, _, _)
filter_loop(items, mode, value, acc) ==
    IF items = <<>> THEN acc
    ELSE filter_loop(Tail(items), mode, value,
                     filter_entry(acc, items[1][1], items[1][2], mode, value))

\* a variant: mode "all" goes through the loop as well
filter_by_date_noShortcut(tm, mode, value) == filter_loop(tm, mode, value, <<>>)

filter_by_date(tm, mode, value) ==
    IF mode = "all" THEN tm ELSE filter_loop(tm, mode, value, <<>>)

-----------------------------------------------------------------------------
(* bots/showtime_bot.py: process_events *)

TzOffsetHours == 8      \* TW_TZ = timezone(timedelta(hours=8))

\* the day after d
NextDay(d) ==
    IF Day(d) < DaysInMonth(Year(d), Month(d))
    THEN <<Year(d), Month(d), Day(d) + 1>>
    ELSE IF Month(d) < 12 THEN <<Year(d), Month(d) + 1, 1>>
    ELSE <<Year(d) + 1, 1, 1>>

\* a variant: the hour is shifted, the day is kept
astimezone_sameDay(dt) ==
    <<dt[1], dt[2], dt[3], (dt[4] + TzOffsetHours) % 24, dt[5]>>

\* dt.astimezone(TW_TZ) of a UTC instant <<year, month, day, hour, minute>>
astimezone(dt) ==
    LET h == dt[4] + TzOffsetHours
        d == <<dt[1], dt[2], dt[3]>>
    IN  IF h < 24 THEN <<d[1], d[2], d[3], h, dt[5]>>
        ELSE <<NextDay(d)[1], NextDay(d)[2], NextDay(d)[3], h - 24, dt[5]>>

\* a in b, on str
IsSubstring(a, b) ==
    \E i \in 0..(Len(b) - Len(a)) : SubSeq(b, i + 1, i + Len(a)) = a

\* what match_cinema returns when no selected name matches
NoCinema == <<-1>>

RECURSIVE match_cinema_oneWay(_, _)
\* a variant: only "sel in api_name" is tried
match_cinema_oneWay(api_name, selected_list) ==
    IF selected_list = <<>> THEN NoCinema
    ELSE IF IsSubstring(selected_list[1], api_name) THEN selected_list[1]
    ELSE match_cinema_oneWay(api_name, Tail(selected_list))

RECURSIVE match_cinema(_, _)
match_cinema(api_name, selected_list) ==
    IF selected_list = <<>> THEN NoCinema
    ELSE LET sel == selected_list[1]
         IN  IF IsSubstring(sel, api_name) \/ IsSubstring(api_name, sel)
             THEN sel
             ELSE match_cinema(api_name, Tail(selected_list))

\* f"{venue_id}": None prints as "None"
FormatId(venue_id) ==
    IF venue_id = None THEN <<78, 111, 110, 101>> ELSE venue_id

\* the default of venue_info.get("name", ...)
UnknownCinema(venue_id) ==
    <<26410, 30693, 24433, 22478, ChLParen>> \o FormatId(venue_id)
        \o <<ChRParen>>

CinemaName(event, venues) ==
    IF dict_has(venues, event.venueId)
    THEN dict_get(venues, event.venueId)
    ELSE UnknownCinema(event.venueId)

\* the label of the local day on which the event starts
EventLabel(event) ==
    LET dt_local == astimezone(event.startedAt)
    IN  format_date_with_weekday(<<dt_local[1], dt_local[2], dt_local[3]>>)

\* "HH:MM" or "HH:MM [format]"
EventDisplay(event) ==
    LET dt_local == astimezone(event.startedAt)
        time_str == Clock(dt_local[4], dt_local[5])
    IN  IF event.format # <<>>
        THEN time_str \o <<32, 91>> \o event.format \o <<93>>
        ELSE time_str

\* the body of "for event in captured_events"
add_event(res, event, venues, selected) ==
    LET matched == match_cinema(CinemaName(event, venues), selected)
    IN  IF matched = NoCinema THEN res
        ELSE IF event.startedAt = None THEN res
        ELSE LET label == EventLabel(event)
                 r1 == IF dict_has(res, matched) THEN res
                       ELSE dict_set(res, matched, <<>>)
                 dm == dict_get(r1, matched)
                 dm1 == IF dict_has(dm, label) THEN dm
                        ELSE dict_set(dm, label, <<>>)
                 times == Append(dict_get(dm1, label), EventDisplay(event))
             IN  dict_set(r1, matched, dict_set(dm1, label, times))

RECURSIVE collect_events(_, _, _, _)
collect_events(events, venues, selected, res) ==
    IF events = <<>> THEN res
    ELSE collect_events(Tail(events), venues, selected,
                        add_event(res, events[1], venues, selected))

\* key=lambda d: parse_date_from_string(d) or date.max
SortKey(label) ==
    IF parse_date_from_string(label) = None THEN DateMax
    ELSE parse_date_from_string(label)

RECURSIVE insert_by_key(_, _)
\* x put behind every element whose key is not greater: the sort is stable
insert_by_key(x, s) ==
    IF s = <<>> THEN <<x>>
    ELSE IF SeqLess(SortKey(x), SortKey(s[1])) THEN <<x>> \o s
    ELSE <<s[1]>> \o insert_by_key(x, Tail(s))

RECURSIVE sorted_dates_from(_, _)
sorted_dates_from(labels, acc) ==
    IF labels = <<>> THEN acc
    ELSE sorted_dates_from(Tail(labels), insert_by_key(labels[1], acc))

\* a variant: the date keys keep their insertion order
unsorted_dates(labels) == labels

\* sorted(results[cinema].keys(), key=...)
sorted_dates(labels) == sorted_dates_from(labels, <<>>)

RECURSIVE insert_str(_, _)
insert_str(x, s) ==
    IF s = <<>> THEN <<x>>
    ELSE IF SeqLess(x, s[1]) THEN <<x>> \o s
    ELSE <<s[1]>> \o insert_str(x, Tail(s))

RECURSIVE sorted_strs(_, _)
sorted_strs(xs, acc) ==
    IF xs = <<>> THEN acc
    ELSE sorted_strs(Tail(xs), insert_str(xs[1], acc))

RECURSIVE list_of_set(_)
\* list(set(xs)), in some order
list_of_set(S) ==
    IF S = {} THEN <<>>
    ELSE LET x == CHOOSE x \in S : TRUE
         IN  <<x>> \o list_of_set(S \ {x})

\* a variant: sorted(xs), the set() forgotten
sorted_with_repeats(xs) == sorted_strs(xs, <<>>)

\* sorted(list(set(xs)))
sorted_unique(xs) ==
    sorted_strs(list_of_set({xs[i] : i \in 1..Len(xs)}), <<>>)

\* results[cinema] = {d: sorted(list(set(results[cinema][d]))) for d in ...}
sort_cinema(dm) ==
    LET keys == sorted_dates(dict_keys(dm))
    IN  [i \in 1..Len(keys) |-> <<keys[i], sorted_unique(dict_get(dm, keys[i]))>>]

process_events(events, venues, selected) ==
    LET res == collect_events(events, venues, selected, <<>>)
    IN  [i \in 1..Len(res) |-> <<res[i][1], sort_cinema(res[i][2])>>]

-----------------------------------------------------------------------------
(* Inputs of the date scenarios *)

MaxStrLen == 3          \* every string up to this length is parsed
MaxEntries == 4         \* entries of a schedule map

\* the dates on which the scenarios run
Todays ==
    {<<2026, 1, 15>>, <<2026, 2, 7>>, <<2026, 11, 1>>, <<2027, 12, 31>>}

\* "1", "2", "3", "0", "9", the two markers and a letter
Alphabet == {49, 50, 51, 48, 57, Yue, Ri, 120}
DigitAlphabet == {c \in Alphabet : IsDigit(c)}

SeqsUpTo(S, n) == UNION {[1..k -> S] : k \in 0..n}

DigitRuns == SeqsUpTo(DigitAlphabet, 2) \ {<<>>}

\* text before and after a pattern: nothing, a letter, a digit, the weekday
\* suffix, a second pattern
Prefixes == {<<>>, <<120>>, <<49>>}
Suffixes == {<<>>, <<ChLParen, 20116, ChRParen>>, <<50, Yue, 49, Ri>>}

PatternStrings ==
    {pre \o m \o <<Yue>> \o d \o <<Ri>> \o suf :
        pre \in Prefixes, m \in DigitRuns, d \in DigitRuns, suf \in Suffixes}

InputStrings == SeqsUpTo(Alphabet, MaxStrLen) \cup PatternStrings

\* every month/day combination there is: a leap year and a common year
CalendarYears == {2024, 2026}
CalendarDates ==
    {<<y, m, d>> : y \in CalendarYears, m \in 1..12, d \in 1..31} \cap
    {x \in CalendarYears \X (1..12) \X (1..31) : ValidDate(x[1], x[2], x[3])}

Label(m, d, wd) ==
    str(m) \o <<Yue>> \o str(d) \o <<Ri, ChLParen, WEEKDAY_NAMES[wd], ChRParen>>

UnknownLabel == <<26410, 30693, 26085, 26399>>

\* the labels of the schedule maps, each with the time lists it may carry
LabelTimes ==
    <<  <<Label(2, 6, 5),
          {<<Clock(10, 0), Clock(14, 0), Clock(18, 0)>>, <<Clock(9, 30)>>}>>,
        <<Label(2, 7, 6), {<<Clock(11, 0), Clock(15, 0)>>, <<Clock(14, 0)>>}>>,
        <<Label(2, 8, 7), {<<Clock(13, 0), Clock(17, 0)>>}>>,
        <<Label(12, 31, 4), {<<Clock(23, 50)>>}>>,
        <<Label(2, 30, 1), {<<Clock(12, 0)>>}>>,
        <<UnknownLabel, {<<Clock(10, 0)>>}>>  >>

MapEntries ==
    UNION {{<<LabelTimes[i][1], t>> : t \in LabelTimes[i][2]} :
              i \in 1..Len(LabelTimes)}

DistinctKeys(d) ==
    \A i, j \in 1..Len(d) : d[i][1] = d[j][1] => i = j

ScheduleMaps == {d \in SeqsUpTo(MapEntries, MaxEntries) : DistinctKeys(d)}

TargetDates ==
    {<<2026, 2, 6>>, <<2026, 2, 7>>, <<2026, 2, 10>>, <<2027, 2, 7>>,
     <<2026, 12, 31>>}
TargetRanges ==
    {<<<<2026, 2, 6>>, <<2026, 2, 7>>>>, <<<<2026, 2, 1>>, <<2026, 2, 28>>>>,
     <<<<2026, 2, 7>>, <<2027, 2, 7>>>>, <<<<2027, 2, 8>>, <<2027, 2, 6>>>>}

-----------------------------------------------------------------------------
(* Scenario: labels are formatted and parsed while the calendar advances *)

EventIdle ==
    /\ captured_events = <<>> /\ captured_venues = <<>>
    /\ selected_cinemas = <<>> /\ results = <<>>

CacheIdle ==
    /\ cache_fn = <<>> /\ now = 0 /\ cache_entries = {}
    /\ cache_hist = <<>> /\ last_call = <<>>

AcquireIdle ==
    /\ is_cloud = FALSE /\ method = "" /\ browser = "none" /\ steps = <<>>
    /\ movies = <<>> /\ cinemas = <<>> /\ todo = <<>> /\ ret = <<>>

ChallengeIdle == cf_round = 0 /\ cf_seen = <<>> /\ cf_result = ""

GotoIdle == goto_url = <<>> /\ goto_calls = <<>> /\ goto_out = ""

\* no request issued yet
NoRequest ==
    [to |-> "", target |-> "", auth |-> "", api_headers |-> FALSE,
     impersonate |-> "", timeout |-> 0]

HttpIdle ==
    /\ worker_url = "" /\ worker_secret = "" /\ http_url = ""
    /\ http_request = NoRequest /\ http_status = 0 /\ http_out = ""

WalkIdle ==
    /\ siblings = <<>> /\ tag_at = 0 /\ next_elem = 0 /\ times_list = <<>>
    /\ date_times = <<>> /\ consumed = <<>>

ViewIdle ==
    /\ dict_heap = <<>> /\ list_heap = <<>> /\ cached_at = 0
    /\ snapshot = <<>> /\ view_at = 0 /\ view_mode = "all"
    /\ view_value = None /\ views = 0

UtilIdle == GotoIdle /\ HttpIdle /\ WalkIdle /\ ViewIdle

DateIdle == date_str = <<>> /\ dt_obj = None /\ parsed = None
FilterIdle ==
    times_map = <<>> /\ date_mode = "all" /\ date_value = None /\ filtered = <<>>

InitDate ==
    /\ pc = "init"
    /\ today \in Todays
    /\ parsed = None
    /\ \/ dt_obj = None /\ date_str \in InputStrings
       \/ dt_obj \in CalendarDates /\ date_str = <<>>
    /\ FilterIdle /\ EventIdle /\ CacheIdle /\ AcquireIdle /\ ChallengeIdle
    /\ UtilIdle

\* midnight passes
Tick ==
    /\ pc \in {"init", "formatted"}
    /\ \E t \in Todays : SeqLess(today, t) /\ today' = t
    /\ UNCHANGED <<pc, dateVars, OutsideDate>>

Format ==
    /\ pc = "init" /\ dt_obj # None
    /\ date_str' = format_date_with_weekday(dt_obj)
    /\ pc' = "formatted"
    /\ UNCHANGED <<today, dt_obj, parsed, OutsideDate>>

Parse ==
    /\ pc = "init" /\ dt_obj = None
    /\ parsed' = parse_date_from_string(date_str)
    /\ pc' = "parsed"
    /\ UNCHANGED <<today, date_str, dt_obj, OutsideDate>>

ParseFormatted ==
    /\ pc = "formatted"
    /\ parsed' = parse_date_from_string(date_str)
    /\ pc' = "roundtrip"
    /\ UNCHANGED <<today, date_str, dt_obj, OutsideDate>>

NextDate == Tick \/ Format \/ Parse \/ ParseFormatted

SpecDate == InitDate /\ [][NextDate]_vars

-----------------------------------------------------------------------------
(* Scenario: a schedule map is viewed through date filters *)

InitFilter ==
    /\ pc = "init"
    /\ today \in Todays
    /\ times_map \in ScheduleMaps
    /\ date_mode = "all" /\ date_value = None /\ filtered = <<>>
    /\ DateIdle /\ EventIdle /\ CacheIdle /\ AcquireIdle /\ ChallengeIdle
    /\ UtilIdle

View(mode, value) ==
    /\ pc = "init"
    /\ date_mode' = mode
    /\ date_value' = value
    /\ filtered' = filter_by_date(times_map, mode, value)
    /\ pc' = "filtered"
    /\ UNCHANGED <<today, times_map, OutsideFilter>>

ViewAll == View("all", None)
ViewSingle == \E t \in TargetDates : View("single", t)
ViewRange == \E r \in TargetRanges : View("range", r)

NextFilter == ViewAll \/ ViewSingle \/ ViewRange

SpecFilter == InitFilter /\ [][NextFilter]_vars

-----------------------------------------------------------------------------
(* Properties of filter_by_date, checked under SpecFilter *)

SampleMap ==
    <<  <<Label(2, 6, 5), <<Clock(10, 0), Clock(14, 0), Clock(18, 0)>>>>,
        <<Label(2, 7, 6), <<Clock(11, 0), Clock(15, 0)>>>>,
        <<Label(2, 8, 7), <<Clock(13, 0), Clock(17, 0)>>>>  >>

Unparsed(e) == parse_date_from_string(e[1]) = None

\* C1: in mode "single" with target t the result holds exactly the entries of
\* the input whose key parses to t, and every entry whose key does not parse,
\* each with its own time list, one entry per key, and nothing else.
C1_SingleExact ==
    (pc = "filtered" /\ date_mode = "single") =>
        /\ Entries(filtered) =
              {e \in Entries(times_map) :
                  Unparsed(e) \/ parse_date_from_string(e[1]) = date_value}
        /\ DistinctKeys(filtered)

C1_Witness ==
    /\ pc = "filtered" /\ date_mode = "single"
    /\ \E e \in Entries(filtered) : parse_date_from_string(e[1]) = date_value
    /\ \E e \in Entries(filtered) : Unparsed(e)
    /\ \E e \in Entries(times_map) : e \notin Entries(filtered)

\* C2: in mode "range" with (start, end) the result holds exactly the entries
\* whose key parses to a day d with start <= d <= end, both ends included,
\* and every entry whose key does not parse, and nothing else.
C2_RangeExact ==
    (pc = "filtered" /\ date_mode = "range") =>
        /\ Entries(filtered) =
              {e \in Entries(times_map) :
                  \/ Unparsed(e)
                  \/ LET d == toordinal(parse_date_from_string(e[1]))
                     IN  /\ toordinal(date_value[1]) <= d
                         /\ d <= toordinal(date_value[2])}
        /\ DistinctKeys(filtered)

C2_Witness ==
    /\ pc = "filtered" /\ date_mode = "range"
    /\ date_value[1] # date_value[2]
    /\ \E e \in Entries(filtered) : parse_date_from_string(e[1]) = date_value[1]
    /\ \E e \in Entries(filtered) : parse_date_from_string(e[1]) = date_value[2]
    /\ \E e \in Entries(filtered) : Unparsed(e)
    /\ \E e \in Entries(times_map) : e \notin Entries(filtered)

\* C3: on the three-entry sample map, "single" with target 2026-02-07 returns
\* exactly the entry of the 7th, and "range" with (2026-02-06, 2026-02-07)
\* exactly the entries of the 6th and the 7th, on whatever day it runs.
C3_SampleOutcome ==
    (pc = "filtered" /\ times_map = SampleMap) =>
        /\ (date_mode = "single" /\ date_value = <<2026, 2, 7>>)
              => filtered = <<SampleMap[2]>>
        /\ (date_mode = "range"
              /\ date_value = <<<<2026, 2, 6>>, <<2026, 2, 7>>>>)
              => filtered = <<SampleMap[1], SampleMap[2]>>

\* C4: in mode "all" the result equals the input map, the empty map included.
C4_AllIdentity ==
    (pc = "filtered" /\ date_mode = "all") => filtered = times_map

C4_Witness ==
    /\ pc = "filtered" /\ date_mode = "all"
    /\ Len(filtered) >= 2
    /\ \E e \in Entries(filtered) : ~Unparsed(e)

-----------------------------------------------------------------------------
(* Properties of format_date_with_weekday and parse_date_from_string,
   checked under SpecDate *)

\* C5: formatting any calendar date and parsing the label back, on any day,
\* gives a date (not None) with the same month and day.
C5_RoundTrip ==
    pc = "roundtrip" =>
        /\ parsed # None
        /\ Month(parsed) = Month(dt_obj)
        /\ Day(parsed) = Day(dt_obj)

\* the places <<i, a, b>> where a digits, the month mark, b digits and the day
\* mark stand in s from position i on
PatternPlaces(s) ==
    {x \in (1..Len(s)) \X {1, 2} \X {1, 2} :
        LET i == x[1]  a == x[2]  b == x[3]
        IN  /\ i + a + b + 1 <= Len(s)
            /\ \A k \in 0..(a - 1) : IsDigit(s[i + k])
            /\ s[i + a] = Yue
            /\ \A k \in 1..b : IsDigit(s[i + a + k])
            /\ s[i + a + b + 1] = Ri}

ReferenceParse(s) ==
    IF PatternPlaces(s) = {} THEN None
    ELSE LET x == CHOOSE x \in PatternPlaces(s) :
                      \A y \in PatternPlaces(s) : x[1] <= y[1]
             month == int(SubSeq(s, x[1], x[1] + x[2] - 1))
             day == int(SubSeq(s, x[1] + x[2] + 1, x[1] + x[2] + x[3]))
             year == IF month >= today[2] THEN today[1] ELSE today[1] + 1
         IN  IF ValidDate(year, month, day) THEN <<year, month, day>> ELSE None

\* C6: parse_date_from_string is None on a string without a pattern of 1-2
\* digits, the month mark, 1-2 digits, the day mark; otherwise it takes month
\* and day from the first pattern, the year of today if month >= today's month
\* and the next year if not, and is that date if it exists and None if not.
C6_ParseReference ==
    pc = "parsed" => parsed = ReferenceParse(date_str)

C6_Witness ==
    /\ pc = "parsed"
    /\ parsed # None
    /\ Year(parsed) = Year(today) + 1
    /\ date_str[1] = 120

-----------------------------------------------------------------------------
(* Scenario: raw events are normalized into a schedule *)

MaxEvents == 2          \* raw events of one query

\* theater names
Taipei == <<21488, 21271, 31168, 27888>>
Kaohsiung == <<39640, 38596, 31168, 27888>>
Showtime == <<31168, 27888>>
TaipeiCinema == <<21488, 21271, 31168, 27888, 24433, 22478>>

\* venue ids "1" and "2"
VenueIds == {<<49>>, <<50>>}

VenueMaps ==
    {<<  <<<<49>>, Taipei>>, <<<<50>>, Kaohsiung>>  >>,
     <<  <<<<49>>, TaipeiCinema>>  >>,
     <<  <<<<49>>, Showtime>>, <<<<50>>, <<>>>>  >>}

Selections ==
    {<<Taipei, TaipeiCinema>>, <<Taipei, Kaohsiung>>, <<Showtime, Kaohsiung>>,
     <<Kaohsiung, TaipeiCinema>>}

\* UTC instants; None is an event without startedAt
StartTimes ==
    {<<2026, 2, 6, 2, 0>>, <<2026, 2, 6, 6, 30>>, <<2026, 12, 31, 16, 5>>,
     <<2028, 2, 28, 17, 0>>, <<2026, 1, 31, 16, 0>>, None}

\* no format tag, "3D"
Formats == {<<>>, <<51, 68>>}

\* the screening that is also shown with a format tag
TaggedStart == <<2026, 2, 6, 2, 0>>

RawEvents ==
    {e \in [venueId : VenueIds, startedAt : StartTimes, format : Formats] :
        e.format = <<>> \/ e.startedAt = TaggedStart}

\* on the first the label of 1 January is this year's, on the second next
\* year's
EventDays == {<<2026, 1, 15>>, <<2026, 2, 7>>}

InitEvents ==
    /\ pc = "init"
    /\ today \in EventDays
    /\ captured_events \in SeqsUpTo(RawEvents, MaxEvents)
    /\ captured_venues \in VenueMaps
    /\ selected_cinemas \in Selections
    /\ results = <<>>
    /\ DateIdle /\ FilterIdle /\ CacheIdle /\ AcquireIdle /\ ChallengeIdle
    /\ UtilIdle

ProcessEvents ==
    /\ pc = "init"
    /\ results' = process_events(captured_events, captured_venues,
                                 selected_cinemas)
    /\ pc' = "processed"
    /\ UNCHANGED <<today, captured_events, captured_venues, selected_cinemas,
                   OutsideEvents>>

NextEvents == ProcessEvents

SpecEvents == InitEvents /\ [][NextEvents]_vars

-----------------------------------------------------------------------------
(* Properties of process_events, checked under SpecEvents *)

EventSet == {captured_events[i] : i \in 1..Len(captured_events)}

\* the events that are recorded at all: matched, and with a start time
Recorded(e) ==
    /\ e.startedAt # None
    /\ match_cinema(CinemaName(e, captured_venues), selected_cinemas) # NoCinema

EventCinema(e) == match_cinema(CinemaName(e, captured_venues), selected_cinemas)

NoRepeats(xs) == \A i, j \in 1..Len(xs) : xs[i] = xs[j] => i = j

Ascending(xs) == \A i, j \in 1..Len(xs) : i < j => SeqLess(xs[i], xs[j])

\* C7: the events of one selected theater and one local day are under one
\* theater key and one date key, and that date's list holds each distinct
\* display string of these events exactly once, in sorted order.
C7_Grouping ==
    pc = "processed" =>
        /\ DistinctKeys(results)
        /\ \A t \in 1..Len(results) : DistinctKeys(results[t][2])
        /\ \A e \in EventSet : Recorded(e) =>
              /\ dict_has(results, EventCinema(e))
              /\ dict_has(dict_get(results, EventCinema(e)), EventLabel(e))
        /\ \A t \in 1..Len(results) : \A d \in 1..Len(results[t][2]) :
              LET times == results[t][2][d][2]
              IN  /\ {times[i] : i \in 1..Len(times)} =
                        {EventDisplay(e) : e \in
                            {x \in EventSet :
                                /\ Recorded(x)
                                /\ EventCinema(x) = results[t][1]
                                /\ EventLabel(x) = results[t][2][d][1]}}
                  /\ NoRepeats(times)
                  /\ Ascending(times)

\* two different times at one venue and day, and a repeated event
C7_Witness ==
    /\ pc = "processed"
    /\ Len(captured_events) = 2
    /\ Len(results) = 1 /\ Len(results[1][2]) = 1
    /\ captured_events[1] # captured_events[2]
    /\ Len(results[1][2][1][2]) = 2
    /\ SeqLess(EventDisplay(captured_events[2]), EventDisplay(captured_events[1]))

ParsesTo(label) == parse_date_from_string(label)

\* C8: per theater the date keys ascend by parse_date_from_string, a label
\* that does not parse stands behind every label that does, and each date's
\* display strings are without repeats and ascend lexically.
C8_Ordering ==
    pc = "processed" =>
        \A t \in 1..Len(results) :
            LET dm == results[t][2]
            IN  /\ \A i, j \in 1..Len(dm) : i < j =>
                      /\ ParsesTo(dm[i][1]) = None => ParsesTo(dm[j][1]) = None
                      /\ (ParsesTo(dm[i][1]) # None /\ ParsesTo(dm[j][1]) # None)
                            => toordinal(ParsesTo(dm[i][1]))
                                  <= toordinal(ParsesTo(dm[j][1]))
                /\ \A d \in 1..Len(dm) : Ascending(dm[d][2])

\* the later date came first in the input, or the label that does not parse
C8_Witness ==
    /\ pc = "processed"
    /\ Len(captured_events) = 2
    /\ Recorded(captured_events[1]) /\ Recorded(captured_events[2])
    /\ Len(results) = 1 /\ Len(results[1][2]) = 2
    /\ results[1][2][1][1] = EventLabel(captured_events[2])
    /\ ParsesTo(results[1][2][2][1]) = None

\* a occurs in b
Occurs(a, b) == \E i, j \in 0..Len(b) : i <= j /\ SubSeq(b, i + 1, j) = a

Matches(s, name) == Occurs(s, name) \/ Occurs(name, s)

FirstMatches(e) ==
    {i \in 1..Len(selected_cinemas) :
        /\ Matches(selected_cinemas[i], CinemaName(e, captured_venues))
        /\ \A k \in 1..(i - 1) :
              ~Matches(selected_cinemas[k], CinemaName(e, captured_venues))}

ResultTriples ==
    {<<results[t][1], results[t][2][d][1], results[t][2][d][2][i]>> :
        <<t, d, i>> \in
            {x \in (1..Len(results)) \X (1..MaxEvents + 1) \X (1..MaxEvents + 1) :
                /\ x[2] <= Len(results[x[1]][2])
                /\ x[3] <= Len(results[x[1]][2][x[2]][2])}}

\* C9: an event is recorded under the first selected name that is a substring
\* of its venue name or has the venue name as a substring; an event that no
\* selected name matches is nowhere in the result; every theater key is a
\* selected name.
C9_FirstMatch ==
    pc = "processed" =>
        /\ ResultTriples =
              {<<selected_cinemas[i], EventLabel(e), EventDisplay(e)>> :
                  <<e, i>> \in
                      {x \in EventSet \X (1..Len(selected_cinemas)) :
                          /\ x[1].startedAt # None
                          /\ x[2] \in FirstMatches(x[1])}}
        /\ \A t \in 1..Len(results) :
              \E i \in 1..Len(selected_cinemas) :
                  results[t][1] = selected_cinemas[i]

\* an event whose venue matches both selected names, one dropped event, and
\* an event matched because its venue name is inside the selected name
C9_Witness ==
    /\ pc = "processed"
    /\ Len(selected_cinemas) = 2
    /\ \E e \in EventSet :
          /\ Recorded(e)
          /\ \A i \in 1..2 :
                Matches(selected_cinemas[i], CinemaName(e, captured_venues))
          /\ dict_has(results, selected_cinemas[1])
          /\ ~dict_has(results, selected_cinemas[2])
    /\ \E e \in EventSet : e.startedAt # None /\ FirstMatches(e) = {}


\* ---------------------------------------------------------------------
\* The cache layer: st.cache_data around the four acquisition calls.
\* cache_layer.py wraps them with a ttl; app.py defines its own wrappers
\* of the same names and is the script that the UI runs.
\* ---------------------------------------------------------------------

TTL_CATALOG == 3600
TTL_SCHEDULE == 1800
APP_TTL_SHOWTIME_CATALOG == 3600

CatalogNames ==
    {"cached_vieshow_get_cinemas_and_movies",
     "cached_showtime_get_movies_and_cinemas"}

ScheduleNames ==
    {"cached_vieshow_get_movie_times", "cached_showtime_get_movie_times"}

EntryPoints ==
    [module : {"cache_layer", "app"}, name : CatalogNames \cup ScheduleNames]

IsCatalog(fn) == fn.name \in CatalogNames

\* does the decorator of the entry point give a ttl argument?
has_ttl(fn) ==
    \/ fn.module = "cache_layer"
    \/ fn.name = "cached_showtime_get_movies_and_cinemas"

\* the ttl argument of the decorator, where it gives one
ttl(fn) ==
    IF fn.module = "cache_layer"
    THEN IF IsCatalog(fn) THEN TTL_CATALOG ELSE TTL_SCHEDULE
    ELSE APP_TTL_SHOWTIME_CATALOG

\* json.dumps(..., ensure_ascii=False) of strings that need no escape
json_quote(s) == <<34>> \o s \o <<34>>

RECURSIVE json_join(_)
json_join(items) ==
    IF items = <<>> THEN <<>>
    ELSE IF Len(items) = 1 THEN items[1]
    ELSE items[1] \o <<44, 32>> \o json_join(Tail(items))

\* of a list of strings: the items in the order of the list
json_dumps_list(xs) ==
    <<91>> \o json_join([i \in 1..Len(xs) |-> json_quote(xs[i])]) \o <<93>>

\* of a dict of strings: the items in the order of insertion
json_dumps_dict(d) ==
    <<123>>
    \o json_join([i \in 1..Len(d) |->
                    json_quote(d[i][1]) \o <<58, 32>> \o json_quote(d[i][2])])
    \o <<125>>

\* the catalog of the first chain: theater name -> theater code
vs_cinema_map == <<<<Taipei, <<84, 80>>>>, <<Kaohsiung, <<75, 83>>>>>>

\* {name: vs_cinema_map[name] for name in vs_selected_cinemas}
selected_cinema_dict(selected) ==
    [i \in 1..Len(selected) |-> <<selected[i], dict_get(vs_cinema_map, selected[i])>>]

\* what the user picks: a movie and the theaters in the order of selection
CacheMovie == <<77, 49>>
CacheSelections == {<<Taipei, Kaohsiung>>, <<Kaohsiung, Taipei>>}
ScheduleQueries == [movie : {CacheMovie}, theaters : CacheSelections]

\* the arguments that the query button passes to the wrapper
ArgsOf(fn, q) ==
    IF fn.name = "cached_vieshow_get_movie_times"
    THEN <<json_dumps_dict(selected_cinema_dict(q.theaters)), q.movie>>
    ELSE <<q.movie, json_dumps_list(q.theaters)>>

\* the argument tuples of the calls: none for a catalog
Keys(fn) ==
    IF IsCatalog(fn) THEN {<<>>} ELSE {ArgsOf(fn, q) : q \in ScheduleQueries}

\* what an acquisition may return
Fetched == {"empty", "listing"}

\* st.cache_data serves an entry while it is younger than the ttl
Fresh(e, fn, t) == has_ttl(fn) => t - e.stored < ttl(fn)

\* <function>.clear(): every entry of the function goes
cleared_entries == {}

cleared_hist == {[h EXCEPT !.cleared = TRUE] : h \in cache_hist}

\* one call of the wrapped function with `key`, on the entries `entries`
cached_call(key, entries, hist) ==
    LET live == {e \in entries : e.key = key /\ Fresh(e, cache_fn, now)}
        before == {h \in hist : h.key = key}
    IN  IF live # {}
        THEN /\ cache_entries' = entries
             /\ cache_hist' = hist
             /\ last_call' = [key |-> key, acquired |-> FALSE,
                              value |-> (CHOOSE e \in live : TRUE).value,
                              before |-> before, known |-> hist,
                              at |-> now]
        ELSE \E v \in Fetched :
             /\ cache_entries' = {e \in entries : e.key # key}
                    \cup {[key |-> key, value |-> v, stored |-> now]}
             /\ cache_hist' = (hist \ before)
                    \cup {[key |-> key, value |-> v, stored |-> now,
                           cleared |-> FALSE]}
             /\ last_call' = [key |-> key, acquired |-> TRUE, value |-> v,
                              before |-> before, known |-> hist,
                              at |-> now]

\* Inputs of the cache scenarios
MaxTime == 4500
TickSteps == {700, 1900}
CacheDay == <<2026, 2, 7>>

InitCache ==
    /\ pc = "init"
    /\ today = CacheDay
    /\ DateIdle /\ FilterIdle /\ EventIdle /\ AcquireIdle /\ ChallengeIdle
    /\ UtilIdle
    /\ cache_fn \in EntryPoints
    /\ now = 0
    /\ cache_entries = {}
    /\ cache_hist = {}
    /\ last_call = <<>>

\* a plain call: any caller of cache_layer.py, and the catalog calls that
\* app.py makes on every rerun of the script
Call ==
    /\ cache_fn.module = "cache_layer" \/ IsCatalog(cache_fn)
    /\ \E key \in Keys(cache_fn) : cached_call(key, cache_entries, cache_hist)
    /\ pc' = "called"
    /\ UNCHANGED <<cache_fn, now, OutsideCache>>

\* <function>.clear() on its own
Clear ==
    /\ cache_fn.module = "cache_layer"
    /\ cache_entries' = cleared_entries
    /\ cache_hist' = cleared_hist
    /\ UNCHANGED <<pc, cache_fn, now, last_call, OutsideCache>>

\* the query buttons of app.py: clear the schedule cache, then call
RefreshQuery ==
    /\ cache_fn.module = "app" /\ ~IsCatalog(cache_fn)
    /\ \E key \in Keys(cache_fn) : cached_call(key, cleared_entries, cleared_hist)
    /\ pc' = "called"
    /\ UNCHANGED <<cache_fn, now, OutsideCache>>

\* time passes; nothing is evicted by the passing of time alone
Elapse ==
    /\ \E d \in TickSteps :
        /\ now + d <= MaxTime
        /\ now' = now + d
    /\ UNCHANGED <<pc, cache_fn, cache_entries, cache_hist, last_call,
                   OutsideCache>>

NextCache == Call \/ Clear \/ RefreshQuery \/ Elapse

SpecCache == InitCache /\ [][NextCache]_vars

\* ---------------------------------------------------------------------
\* Claims about the cache, checked under SpecCache
\* ---------------------------------------------------------------------

\* the ttl the entry point is said to have
StatedTTL(fn) == IF IsCatalog(fn) THEN 3600 ELSE 1800

\* C10: a call of a cached entry point runs the acquisition exactly when
\* there is no entry for its argument key, or the entry is older than the
\* ttl (3600 s for a catalog, 1800 s for a schedule), or the entry point
\* was cleared after the entry was stored; otherwise the stored value is
\* returned.
C10_HitCondition ==
    pc = "called" =>
        /\ last_call.acquired <=>
              \/ last_call.before = {}
              \/ \E h \in last_call.before :
                    \/ last_call.at - h.stored > StatedTTL(cache_fn)
                    \/ h.cleared
        /\ ~last_call.acquired =>
              \E h \in last_call.before : last_call.value = h.value


\* C11: two schedule queries for the same movie and the same set of
\* theaters, selected in a different order, use the same key: within the
\* ttl and with no clear in between, the second is served from the entry
\* that the first stored.
C11_OrderFreeKey ==
    (pc = "called" /\ ~IsCatalog(cache_fn)) =>
        \A q1, q2 \in ScheduleQueries :
            \A h \in last_call.known :
                ( /\ h.key = ArgsOf(cache_fn, q1)
                  /\ last_call.key = ArgsOf(cache_fn, q2)
                  /\ q1.movie = q2.movie
                  /\ {q1.theaters[i] : i \in 1..Len(q1.theaters)}
                       = {q2.theaters[i] : i \in 1..Len(q2.theaters)}
                  /\ ~h.cleared
                  /\ last_call.at - h.stored < StatedTTL(cache_fn) )
                => (~last_call.acquired /\ last_call.value = h.value)


\* ---------------------------------------------------------------------
\* Acquisition: the four strategy methods of bots/vieshow_bot.py and
\* bots/showtime_bot.py, step by step.  Every step that talks to the
\* browser, the site or the HTTP API may fail.
\* ---------------------------------------------------------------------

VS_CATALOG == "VieshowBot.get_cinemas_and_movies"
VS_SCHEDULE == "VieshowBot.get_movie_times_for_cinemas"
ST_CATALOG == "ShowtimeBot.get_movies_and_cinemas"
ST_SCHEDULE == "ShowtimeBot.get_movie_times"

VieshowMethods == {VS_CATALOG, VS_SCHEDULE}
ShowtimeMethods == {ST_CATALOG, ST_SCHEDULE}
Methods == VieshowMethods \cup ShowtimeMethods

\* a variant: the second chain opens a browser in the cloud as well
FirstStep_browserInCloud(m, cloud) ==
    IF cloud THEN "launch_hidden" ELSE "launch_edge"

\* where a method starts: "if config.IS_CLOUD" sends the second chain to
\* the HTTP API; otherwise create_stealth_page runs, which tries Edge
\* first when not in the cloud
FirstStep(m, cloud) ==
    IF m \in ShowtimeMethods /\ cloud
    THEN IF m = ST_CATALOG THEN "http_programs" ELSE "http_events"
    ELSE IF cloud THEN "launch_hidden" ELSE "launch_edge"

\* a variant: leaving the with block leaves the browser as it is
with_exit_keepsBrowser(b) == b

\* leaving "with Stealth().use_sync(sync_playwright()) as p": Playwright
\* stops and takes the browsers it launched with it
with_exit(b) == IF b = "open" THEN "closed" ELSE b

\* the step log
Log(step, arg, yielded) ==
    Append(steps, [step |-> step, arg |-> arg, yielded |-> yielded])

\* where the body of a method starts once the page exists
BodyStart(m) ==
    CASE m = VS_CATALOG -> "vs_open"
      [] m = VS_SCHEDULE -> "vs_theater"
      [] m = ST_CATALOG -> "st_browse"
      [] m = ST_SCHEDULE -> "st_navigate"

\* a variant: the off-screen launch follows in any case
AfterEdge_alwaysHidden(ok) == "launch_hidden"

\* create_stealth_page: "if browser is None" after the Edge launch
AfterEdge(ok) == IF ok THEN "new_page" ELSE "launch_hidden"

\* create_stealth_page: chromium.launch(channel="msedge", headless=True),
\* its failure is caught
LaunchEdge ==
    /\ pc = "launch_edge"
    /\ \E ok \in BOOLEAN :
        /\ steps' = Log("launch_edge", <<>>, ok)
        /\ browser' = IF ok THEN "open" ELSE browser
        /\ pc' = AfterEdge(ok)
    /\ UNCHANGED <<is_cloud, method, movies, cinemas, todo, ret, eventVars,
                   OutsideAcquire>>

\* create_stealth_page: chromium.launch(headless=False), not guarded
LaunchHidden ==
    /\ pc = "launch_hidden"
    /\ \E ok \in BOOLEAN :
        /\ steps' = Log("launch_hidden", <<>>, ok)
        /\ browser' = IF ok THEN "open" ELSE with_exit(browser)
        /\ pc' = IF ok THEN "new_page" ELSE "raised"
    /\ UNCHANGED <<is_cloud, method, movies, cinemas, todo, ret, eventVars,
                   OutsideAcquire>>

\* create_stealth_page: browser.new_page(...), not guarded
NewPage ==
    /\ pc = "new_page"
    /\ \E ok \in BOOLEAN :
        /\ steps' = Log("new_page", <<>>, ok)
        /\ browser' = IF ok THEN browser ELSE with_exit(browser)
        /\ pc' = IF ok THEN BodyStart(method) ELSE "raised"
    /\ UNCHANGED <<is_cloud, method, movies, cinemas, todo, ret, eventVars,
                   OutsideAcquire>>

\* finally: browser.close()
Finally ==
    /\ pc = "finally"
    /\ browser' = "closed"
    /\ pc' = "leave_with"
    /\ UNCHANGED <<is_cloud, method, steps, movies, cinemas, todo, ret,
                   eventVars, OutsideAcquire>>

\* a variant: the catalog query of the second chain always goes on to the
\* HTTP API
AfterWith_alwaysFallback(m, ms) ==
    IF m = ST_CATALOG THEN "http_programs" ELSE "return"

\* after the with block: the local catalog query of the second chain goes
\* on to the HTTP API when the browser gave no movie
AfterWith(m, ms) ==
    IF m = ST_CATALOG /\ ms = <<>> THEN "http_programs" ELSE "return"

LeaveWith ==
    /\ pc = "leave_with"
    /\ browser' = with_exit(browser)
    /\ pc' = AfterWith(method, movies)
    /\ UNCHANGED <<is_cloud, method, steps, movies, cinemas, todo, ret,
                   eventVars, OutsideAcquire>>

\* the value of the return statement
ReturnValue(m) == IF m \in {VS_CATALOG, ST_CATALOG} THEN <<movies, cinemas>>
                  ELSE results

Return ==
    /\ pc = "return"
    /\ ret' = ReturnValue(method)
    /\ pc' = "returned"
    /\ UNCHANGED <<is_cloud, method, browser, steps, movies, cinemas, todo,
                   eventVars, OutsideAcquire>>


\* ------------------------- first chain (Vieshow) ---------------------

\* str.replace(old, ""), str.strip() on spaces
RECURSIVE remove_all(_, _)
remove_all(s, old) ==
    IF Len(s) < Len(old) THEN s
    ELSE IF SubSeq(s, 1, Len(old)) = old
         THEN remove_all(SubSeq(s, Len(old) + 1, Len(s)), old)
         ELSE <<s[1]>> \o remove_all(Tail(s), old)

RECURSIVE strip(_)
strip(s) ==
    IF s = <<>> THEN s
    ELSE IF s[1] = 32 THEN strip(Tail(s))
    ELSE IF s[Len(s)] = 32 THEN strip(SubSeq(s, 1, Len(s) - 1))
    ELSE s

\* date_str.replace("場次", "").strip()
clean_date(s) == strip(remove_all(s, <<22580, 27425>>))

\* the loop over the date tags of the target movie: blocks are the pairs
\* (text of the date tag, times found after it)
RECURSIVE date_times_of(_, _)
date_times_of(blocks, acc) ==
    IF blocks = <<>> THEN acc
    ELSE LET date_text == blocks[1][1]
             found == blocks[1][2]
         IN  date_times_of(Tail(blocks),
                 IF found # <<>>
                 THEN dict_set(acc, clean_date(date_text),
                               sorted_unique(found))
                 ELSE acc)

\* what the site shows --------------------------------------------------

\* "9:30", "10:00", "12:15"
T0930 == <<57, 58, 51, 48>>
T1000 == <<49, 48, 58, 48, 48>>
T1215 == <<49, 50, 58, 49, 53>>

\* the times re.findall(r"\d{1,2}:\d{2}", block_text) may give for a date
FoundTimes ==
    {<<>>, <<T1000>>, <<T1000, T0930>>, <<T1215, T1000, T1215>>}

\* "2月6日(五) 場次", "2月7日(六)場次"
DateTags ==
    {format_date_with_weekday(<<2026, 2, 6>>) \o <<32, 22580, 27425>>,
     format_date_with_weekday(<<2026, 2, 7>>) \o <<22580, 27425>>}

VsPages == SeqsUpTo(DateTags \X FoundTimes, 2)

VsCatalogs == {<<>>, vs_cinema_map}
VsMovieLists == {<<>>, <<CacheMovie>>}

\* page.goto and page.wait_for_selector of the catalog query
VsOpen ==
    /\ pc = "vs_open"
    /\ \E ok \in BOOLEAN :
        /\ steps' = Log("goto", <<>>, ok)
        /\ pc' = IF ok THEN "vs_options" ELSE "finally"
    /\ UNCHANGED <<is_cloud, method, browser, movies, cinemas, todo, ret,
                   eventVars, OutsideAcquire>>

\* the options of the select control; none found skips the movies
VsOptions ==
    /\ pc = "vs_options"
    /\ \/ /\ steps' = Log("options", <<>>, FALSE)
          /\ pc' = "finally"
          /\ UNCHANGED cinemas
       \/ \E opts \in VsCatalogs :
          /\ steps' = Log("options", <<>>, opts # <<>>)
          /\ cinemas' = opts
          /\ pc' = IF opts # <<>> THEN "vs_movies" ELSE "finally"
    /\ UNCHANGED <<is_cloud, method, browser, movies, todo, ret, eventVars,
                   OutsideAcquire>>

\* select the first theater, wait (a timeout of the wait is caught), parse
VsMovies ==
    /\ pc = "vs_movies"
    /\ \/ /\ steps' = Log("movies", <<>>, FALSE)
          /\ UNCHANGED movies
       \/ \E ms \in VsMovieLists :
          /\ steps' = Log("movies", <<>>, ms # <<>>)
          /\ movies' = ms
    /\ pc' = "finally"
    /\ UNCHANGED <<is_cloud, method, browser, cinemas, todo, ret, eventVars,
                   OutsideAcquire>>

\* one round of "for cinema_name, cinema_value in cinema_dict.items()":
\* an exception leaves the loop for the except clause of the method
VsTheater ==
    /\ pc = "vs_theater"
    /\ LET cinema_name == todo[1]
           next == IF Len(todo) = 1 THEN "finally" ELSE "vs_theater"
       IN  \/ /\ steps' = Log("theater", cinema_name, FALSE)
              /\ pc' = "finally"
              /\ UNCHANGED <<results, todo>>
           \/ /\ steps' = Log("theater", cinema_name, TRUE)
              /\ results' = dict_set(results, cinema_name, <<>>)
              /\ todo' = Tail(todo)
              /\ pc' = next
           \/ \E page \in VsPages :
              /\ steps' = Log("theater", cinema_name, TRUE)
              /\ results' = dict_set(results, cinema_name,
                                     date_times_of(page, <<>>))
              /\ todo' = Tail(todo)
              /\ pc' = next
    /\ UNCHANGED <<is_cloud, method, browser, movies, cinemas, ret,
                   captured_events, captured_venues, selected_cinemas,
                   OutsideAcquire>>


\* ------------------------ second chain (Showtime) --------------------

\* dict.update / repeated d[k] = v
RECURSIVE dict_update(_, _)
dict_update(d, pairs) ==
    IF pairs = <<>> THEN d
    ELSE dict_update(dict_set(d, pairs[1][1], pairs[1][2]), Tail(pairs))

\* a startedAt that datetime.fromisoformat rejects: "bad"
BadStart == <<98, 97, 100>>

\* does process_events raise?  It does at the first event that matches a
\* selected theater and has a startedAt which is not an ISO timestamp
process_raises(events, venues, selected) ==
    \E i \in 1..Len(events) :
        /\ match_cinema(CinemaName(events[i], venues), selected) # NoCinema
        /\ events[i].startedAt = BadStart

\* set(e["venueId"] for e in captured_events) - set(captured_venues.keys())
missing_ids(events, venues) ==
    {id \in {events[i].venueId : i \in 1..Len(events)} :
        ~dict_has(venues, id)}

\* what the upstream API answers ----------------------------------------

AcqEventA == [venueId |-> <<49>>, startedAt |-> <<2026, 2, 6, 2, 0>>,
              format |-> <<>>]
AcqEventB == [venueId |-> <<50>>, startedAt |-> <<2026, 2, 6, 6, 30>>,
              format |-> <<>>]
AcqEventBad == [venueId |-> <<49>>, startedAt |-> BadStart, format |-> <<>>]

EventLists ==
    {<<>>, <<AcqEventA>>, <<AcqEventA, AcqEventB>>, <<AcqEventBad>>,
     <<AcqEventA, AcqEventBad>>}

VenueLists ==
    {<<>>,
     <<  <<<<49>>, Taipei>>  >>,
     <<  <<<<49>>, TaipeiCinema>>  >>,
     <<  <<<<49>>, Taipei>>, <<<<50>>, Kaohsiung>>  >>}

StPrograms == {<<>>, <<  <<<<29255>>, CacheMovie>>  >>}
StCinemas == {<<>>, <<TaipeiCinema>>}

AcqSelections == {<<Taipei>>, <<Taipei, Kaohsiung>>}

\* responses that the page may receive before the click has settled
MaxResponses == 2

Responses == Len(SelectSeq(steps, LAMBDA r : r.step = "response"))

\* a variant: the fetch from inside the page is made whatever the buffer
\* holds after the click
AfterEvents_alwaysInPage(cloud, step, events, venues) ==
    IF cloud
    THEN IF events # <<>> THEN "http_venues" ELSE "return_empty"
    ELSE IF step = "intercept" THEN "inpage_events"
    ELSE IF events = <<>>
         THEN IF step = "inpage_events" THEN "http_events" ELSE "early_return"
         ELSE IF missing_ids(events, venues) # {} THEN "http_venues"
              ELSE "process"

\* after an event fetch: in the cloud the venues are looked up when there
\* are events; in the browser session the next fetch is tried while there
\* are none, and the venue lookup is made for the ids without an entry
AfterEvents(cloud, step, events, venues) ==
    IF cloud
    THEN IF events # <<>> THEN "http_venues" ELSE "return_empty"
    ELSE IF events = <<>>
         THEN CASE step = "intercept" -> "inpage_events"
                [] step = "inpage_events" -> "http_events"
                [] step = "http_events" -> "early_return"
         ELSE IF missing_ids(events, venues) # {} THEN "http_venues"
              ELSE "process"


\* fetch_programs_via_http: a failure is caught inside and gives {}
HttpPrograms ==
    /\ pc = "http_programs"
    /\ \E ms \in StPrograms :
        /\ steps' = Log("http_programs", <<>>, ms # <<>>)
        /\ movies' = ms
        /\ pc' = IF ms # <<>> THEN "http_cinemas" ELSE "return"
    /\ UNCHANGED <<is_cloud, method, browser, cinemas, todo, ret, eventVars,
                   OutsideAcquire>>

\* fetch_cinemas_via_http(first_id)
HttpCinemas ==
    /\ pc = "http_cinemas"
    /\ \E cs \in StCinemas :
        /\ steps' = Log("http_cinemas", <<>>, cs # <<>>)
        /\ cinemas' = cs
    /\ pc' = "return"
    /\ UNCHANGED <<is_cloud, method, browser, movies, todo, ret, eventVars,
                   OutsideAcquire>>

\* the browser step of the catalog query: the movies from the rendered
\* page, then the theaters from the booking page of the first movie; an
\* exception ends the step with what was found so far
StBrowse ==
    /\ pc = "st_browse"
    /\ \E ms \in StPrograms, cs \in StCinemas :
        /\ ms = <<>> => cs = <<>>
        /\ steps' = Log("browser", <<>>, ms # <<>>)
        /\ movies' = ms
        /\ cinemas' = cs
    /\ pc' = "finally"
    /\ UNCHANGED <<is_cloud, method, browser, todo, ret, eventVars,
                   OutsideAcquire>>

\* str.lower(), on the ASCII letters
lower(s) == [i \in 1..Len(s) |-> IF s[i] \in 65..90 THEN s[i] + 32 ELSE s[i]]

\* "timeout", "Timeout"
LowerTimeout == <<116, 105, 109, 101, 111, 117, 116>>
UpperTimeout == <<84, 105, 109, 101, 111, 117, 116>>

\* a variant: every error of the first attempt is taken for a timeout
is_timeout_anyError(e) == TRUE

\* goto_safe: "timeout" in str(e).lower() or "Timeout" in type(e).__name__
is_timeout(e) ==
    \/ IsSubstring(LowerTimeout, lower(e.message))
    \/ IsSubstring(UpperTimeout, e.type)

\* page.goto returned
NoError == [type |-> <<>>, message |-> <<>>]

\* playwright's TimeoutError("Timeout 60000ms exceeded."): the page did not
\* fire the event waited for in time
ErrTimeout ==
    [type |-> <<84, 105, 109, 101, 111, 117, 116, 69, 114, 114, 111, 114>>,
     message |-> <<84, 105, 109, 101, 111, 117, 116, 32, 54, 48, 48, 48, 48,
                   109, 115, 32, 101, 120, 99, 101, 101, 100, 101, 100, 46>>]

\* playwright's Error("net::ERR_CONNECTION_TIMED_OUT")
ErrConnection ==
    [type |-> <<69, 114, 114, 111, 114>>,
     message |-> <<110, 101, 116, 58, 58, 69, 82, 82, 95, 67, 79, 78, 78, 69,
                   67, 84, 73, 79, 78, 95, 84, 73, 77, 69, 68, 95, 79, 85,
                   84>>]

\* playwright's Error("net::ERR_ABORTED")
ErrAborted ==
    [type |-> <<69, 114, 114, 111, 114>>,
     message |-> <<110, 101, 116, 58, 58, 69, 82, 82, 95, 65, 66, 79, 82, 84,
                   69, 68>>]

\* playwright's TargetClosedError("Target page, context or browser has
\* been closed")
ErrClosed ==
    [type |-> <<84, 97, 114, 103, 101, 116, 67, 108, 111, 115, 101, 100, 69,
                114, 114, 111, 114>>,
     message |-> <<84, 97, 114, 103, 101, 116, 32, 112, 97, 103, 101, 44, 32,
                   99, 111, 110, 116, 101, 120, 116, 32, 111, 114, 32, 98,
                   114, 111, 119, 115, 101, 114, 32, 104, 97, 115, 32, 98,
                   101, 101, 110, 32, 99, 108, 111, 115, 101, 100>>]

GotoErrors == {ErrTimeout, ErrConnection, ErrAborted, ErrClosed}
GotoOutcomes == {NoError} \cup GotoErrors

\* page.on("response", ...) and goto_safe to the booking page: page.goto
\* waiting for the load event; a timeout error goes on to the second
\* attempt, any other error is raised again and ends the body
StNavigate ==
    /\ pc = "st_navigate"
    /\ goto_url' = CacheMovie
    /\ \E r \in GotoOutcomes :
        /\ goto_calls' = <<[wait_until |-> "load", outcome |-> r]>>
        /\ IF r = NoError
           THEN /\ goto_out' = "returned"
                /\ steps' = Log("goto", <<>>, TRUE)
                /\ pc' = "st_page"
           ELSE IF is_timeout(r)
           THEN /\ goto_out' = ""
                /\ steps' = steps
                /\ pc' = "st_navigate_dom"
           ELSE /\ goto_out' = "raised"
                /\ steps' = Log("goto", <<>>, FALSE)
                /\ pc' = "finally"
    /\ UNCHANGED <<is_cloud, method, browser, movies, cinemas, todo, ret,
                   eventVars, OutsideNavigate>>

\* goto_safe: page.goto(..., wait_until="domcontentloaded") inside the
\* except clause; its error leaves goto_safe
StNavigateDom ==
    /\ pc = "st_navigate_dom"
    /\ \E r \in GotoOutcomes :
        /\ goto_calls' =
               Append(goto_calls,
                      [wait_until |-> "domcontentloaded", outcome |-> r])
        /\ goto_out' = IF r = NoError THEN "returned" ELSE "raised"
        /\ steps' = Log("goto", <<>>, r = NoError)
        /\ pc' = IF r = NoError THEN "st_page" ELSE "finally"
    /\ UNCHANGED <<goto_url, is_cloud, method, browser, movies, cinemas, todo,
                   ret, eventVars, OutsideNavigate>>

\* on_response, for a response of events/listForProgram
InterceptEvents ==
    /\ pc = "st_page" /\ Responses < MaxResponses
    /\ \E evts \in EventLists :
        /\ captured_events' = captured_events \o evts
        /\ steps' = Log("response", "events", evts # <<>>)
    /\ UNCHANGED <<pc, is_cloud, method, browser, movies, cinemas, todo, ret,
                   captured_venues, selected_cinemas, results, OutsideAcquire>>

\* on_response, for a response of /venues/ids/
InterceptVenues ==
    /\ pc = "st_page" /\ Responses < MaxResponses
    /\ \E vs \in VenueLists :
        /\ captured_venues' = dict_update(captured_venues, vs)
        /\ steps' = Log("response", "venues", vs # <<>>)
    /\ UNCHANGED <<pc, is_cloud, method, browser, movies, cinemas, todo, ret,
                   captured_events, selected_cinemas, results, OutsideAcquire>>

\* the wait for a button, the click on the first selected theater and the
\* wait for the network to go idle (timeouts of the waits are caught)
StClick ==
    /\ pc = "st_page"
    /\ \/ /\ steps' = Log("click", <<>>, FALSE)
          /\ pc' = "finally"
       \/ /\ steps' = Log("intercept", <<>>, captured_events # <<>>)
          /\ pc' = AfterEvents(FALSE, "intercept", captured_events,
                               captured_venues)
    /\ UNCHANGED <<is_cloud, method, browser, movies, cinemas, todo, ret,
                   eventVars, OutsideAcquire>>

\* the fetch of the events from inside the page; an error object and an
\* exception of page.evaluate leave the buffer as it is
InPageEvents ==
    /\ pc = "inpage_events"
    /\ \E evts \in EventLists :
        /\ captured_events' = evts
        /\ steps' = Log("inpage_events", <<>>, evts # <<>>)
        /\ pc' = AfterEvents(FALSE, "inpage_events", evts, captured_venues)
    /\ UNCHANGED <<is_cloud, method, browser, movies, cinemas, todo, ret,
                   captured_venues, selected_cinemas, results, OutsideAcquire>>

\* fetch_events_via_http: a failure is caught inside and gives []
HttpEvents ==
    /\ pc = "http_events"
    /\ \E evts \in EventLists :
        /\ captured_events' = evts
        /\ steps' = Log("http_events", <<>>, evts # <<>>)
        /\ pc' = AfterEvents(is_cloud, "http_events", evts, captured_venues)
    /\ UNCHANGED <<is_cloud, method, browser, movies, cinemas, todo, ret,
                   captured_venues, selected_cinemas, results, OutsideAcquire>>

\* fetch_venues_via_http: in the cloud for the ids of the events, in the
\* browser session for the ids without an entry; the answer is merged
HttpVenues ==
    /\ pc = "http_venues"
    /\ \E vs \in VenueLists :
        /\ captured_venues' = dict_update(captured_venues, vs)
        /\ steps' = Log("http_venues", <<>>, vs # <<>>)
    /\ pc' = "process"
    /\ UNCHANGED <<is_cloud, method, browser, movies, cinemas, todo, ret,
                   captured_events, selected_cinemas, results, OutsideAcquire>>

\* process_events: in the cloud it is called outside any try, in the
\* browser session inside the try of the method
Process ==
    /\ pc = "process"
    /\ IF process_raises(captured_events, captured_venues, selected_cinemas)
       THEN /\ pc' = IF is_cloud THEN "raised" ELSE "finally"
            /\ UNCHANGED results
       ELSE /\ results' = process_events(captured_events, captured_venues,
                                         selected_cinemas)
            /\ pc' = IF is_cloud THEN "return" ELSE "finally"
    /\ steps' = Log("process", <<>>, pc' # "raised")
    /\ UNCHANGED <<is_cloud, method, browser, movies, cinemas, todo, ret,
                   captured_events, captured_venues, selected_cinemas,
                   OutsideAcquire>>

\* the cloud's "return {}"
ReturnEmpty ==
    /\ pc = "return_empty"
    /\ ret' = <<>>
    /\ pc' = "returned"
    /\ UNCHANGED <<is_cloud, method, browser, steps, movies, cinemas, todo,
                   eventVars, OutsideAcquire>>

\* no events after the three fetches: browser.close(); return {} inside
\* the try, so that finally closes once more, and the with block is left
EarlyReturn ==
    /\ pc = "early_return"
    /\ browser' = with_exit("closed")
    /\ ret' = <<>>
    /\ pc' = "returned"
    /\ UNCHANGED <<is_cloud, method, steps, movies, cinemas, todo, eventVars,
                   OutsideAcquire>>


\* ------------------------------ scenario -----------------------------

InitAcquire ==
    /\ today = CacheDay
    /\ DateIdle /\ FilterIdle /\ CacheIdle /\ ChallengeIdle
    /\ UtilIdle
    /\ method \in Methods
    /\ is_cloud \in BOOLEAN
    /\ pc = FirstStep(method, is_cloud)
    /\ selected_cinemas \in
          IF method \in {VS_SCHEDULE, ST_SCHEDULE} THEN AcqSelections
          ELSE {<<>>}
    /\ todo = IF method = VS_SCHEDULE THEN selected_cinemas ELSE <<>>
    /\ browser = "none"
    /\ steps = <<>>
    /\ movies = <<>> /\ cinemas = <<>> /\ ret = <<>>
    /\ captured_events = <<>> /\ captured_venues = <<>> /\ results = <<>>

NextAcquire ==
    \/ LaunchEdge \/ LaunchHidden \/ NewPage
    \/ VsOpen \/ VsOptions \/ VsMovies \/ VsTheater
    \/ StBrowse \/ HttpPrograms \/ HttpCinemas
    \/ StNavigate \/ StNavigateDom \/ InterceptEvents \/ InterceptVenues \/ StClick
    \/ InPageEvents \/ HttpEvents \/ HttpVenues \/ Process
    \/ Finally \/ LeaveWith \/ Return \/ ReturnEmpty \/ EarlyReturn

SpecAcquire == InitAcquire /\ [][NextAcquire]_vars

Done == pc \in {"returned", "raised"}

\* C12: no strategy method raises, whatever fails, in the cloud and
\* locally: each ends by returning a value.
C12_NeverRaises == pc # "raised"


\* the places of the log where one of `names` was taken
StepsOf(names) == {i \in 1..Len(steps) : steps[i].step \in names}

Failed(names) == \E i \in StepsOf(names) : ~steps[i].yielded

C14_TheaterIsolation ==
    (method = VS_SCHEDULE /\ pc = "returned") =>
        \A k \in 1..Len(selected_cinemas) :
            /\ \E i \in StepsOf({"theater"}) :
                  steps[i].arg = selected_cinemas[k]
            /\ (\E i \in StepsOf({"theater"}) :
                  steps[i].arg = selected_cinemas[k] /\ steps[i].yielded)
               => dict_has(ret, selected_cinemas[k])

HttpSteps == {"http_programs", "http_cinemas", "http_events", "http_venues"}

EmptyResult(m) == IF m = ST_CATALOG THEN << <<>>, <<>> >> ELSE <<>>

\* C15: in the cloud the two methods of ShowtimeBot use the HTTP API
\* alone: no browser is launched on any path, and when the HTTP calls
\* fail or give nothing the result is empty.
C15_CloudHttpOnly ==
    (is_cloud /\ method \in ShowtimeMethods) =>
        /\ browser = "none"
        /\ \A i \in 1..Len(steps) : steps[i].step \in HttpSteps \cup {"process"}
        /\ (pc = "returned" /\ ~steps[1].yielded) => ret = EmptyResult(method)

C15_Witness ==
    /\ is_cloud /\ method \in ShowtimeMethods /\ pc = "returned"
    /\ ~steps[1].yielded /\ ret = EmptyResult(method)


LaunchSteps == {"launch_edge", "launch_hidden"}

\* the steps that fetch the program list, resp. the event list
ProgramFetches == {"browser", "http_programs"}
EventFetches == {"intercept", "inpage_events", "http_events"}

LocalShowtime == ~is_cloud /\ method \in ShowtimeMethods

\* an earlier step of `names` that yielded nothing stands before place j
NothingBefore(names, j) ==
    \E i \in StepsOf(names) : i < j /\ ~steps[i].yielded

C17_Escalation ==
    (~is_cloud /\ method = ST_SCHEDULE) =>
        /\ \A j \in StepsOf({"inpage_events"}) :
              NothingBefore({"intercept"}, j)
        /\ \A j \in StepsOf({"http_events"}) :
              NothingBefore({"inpage_events"}, j)
        /\ \A i, j \in StepsOf(EventFetches) : i < j => ~steps[i].yielded
        /\ ( /\ pc = "returned"
             /\ \A i \in StepsOf(EventFetches) : ~steps[i].yielded )
           => ret = <<>>

C17_Witness ==
    /\ ~is_cloud /\ method = ST_SCHEDULE /\ pc = "returned"
    /\ \E i \in StepsOf({"inpage_events"}) : ~steps[i].yielded
    /\ \E j \in StepsOf({"http_events"}) : steps[j].yielded
    /\ ret # <<>>


\* the minute of the day of "H:MM" or "HH:MM"
MinuteOfDay(t) ==
    LET colon == CHOOSE i \in 1..Len(t) : t[i] = 58
    IN  60 * int(SubSeq(t, 1, colon - 1)) + int(SubSeq(t, colon + 1, Len(t)))

\* C18: in the result of VieshowBot.get_movie_times_for_cinemas every
\* time list is non-empty, has no duplicates and is in ascending order of
\* the time of day, single-digit hours such as 9:30 included.
C18_TimeLists ==
    method = VS_SCHEDULE =>
        \A c \in 1..Len(results) :
            \A d \in 1..Len(results[c][2]) :
                LET times == results[c][2][d][2]
                IN  /\ times # <<>>
                    /\ \A i, j \in 1..Len(times) :
                          i < j => MinuteOfDay(times[i]) < MinuteOfDay(times[j])

\* C19: once a venue id has an entry in the venue map no later source
\* changes that entry, and the back-fill tries the fetch from inside the
\* page before the direct HTTP lookup.
C19_VenueMerge ==
    /\ [][\A k \in 1..Len(captured_venues) :
            /\ dict_has(captured_venues', captured_venues[k][1])
            /\ dict_get(captured_venues', captured_venues[k][1])
                  = captured_venues[k][2]]_vars
    /\ []((~is_cloud /\ method = ST_SCHEDULE) =>
            \A j \in StepsOf({"http_venues"}) :
                \E i \in StepsOf({"inpage_venues"}) : i < j)


\* ---------------------------------------------------------------------
\* ShowtimeBot._wait_for_cloudflare: the bounded wait for the
\* interstitial challenge to pass
\* ---------------------------------------------------------------------

\* "Just a moment", "Checking your browser",
\* "Enable JavaScript", "Attention Required"
_CF_KEYWORDS ==
    << <<74, 117, 115, 116, 32, 97, 32, 109, 111, 109, 101, 110, 116>>,
       <<67, 104, 101, 99, 107, 105, 110, 103, 32, 121, 111, 117, 114, 32,
          98, 114, 111, 119, 115, 101, 114>>,
       <<69, 110, 97, 98, 108, 101, 32, 74, 97, 118, 97, 83, 99, 114, 105,
          112, 116>>,
       <<65, 116, 116, 101, 110, 116, 105, 111, 110, 32, 82, 101, 113, 117,
          105, 114, 101, 100>> >>

\* for attempt in range(7)
CF_ROUNDS == 7

\* any(kw in page_text for kw in self._CF_KEYWORDS)
Challenged(page_text) ==
    \E k \in 1..Len(_CF_KEYWORDS) : IsSubstring(_CF_KEYWORDS[k], page_text)

\* the first 500 characters of the page's text, as page.evaluate may give
\* "Just a moment..."
TextChallenge ==
    <<74, 117, 115, 116, 32, 97, 32, 109, 111, 109, 101, 110, 116, 46, 46,
      46>>

\* "Attention Required! | Cloudflare"
TextBlocked ==
    <<65, 116, 116, 101, 110, 116, 105, 111, 110, 32, 82, 101, 113, 117,
      105, 114, 101, 100, 33, 32, 124, 32, 67, 108, 111, 117, 100, 102, 108,
      97, 114, 101>>

\* "線上訂票"
TextBooking ==
    <<32218, 19978, 35330, 31080>>

\* ""
TextNoBody ==
    <<>>

PageTexts == {TextChallenge, TextBlocked, TextBooking, TextNoBody}

\* a variant: one round too many
MoreRounds_oneMore(round) == round <= CF_ROUNDS

\* does the loop have a round left after round `round`?
MoreRounds(round) == round < CF_ROUNDS

InitChallenge ==
    /\ pc = "cf_check"
    /\ today = CacheDay
    /\ DateIdle /\ FilterIdle /\ EventIdle /\ CacheIdle /\ AcquireIdle
    /\ UtilIdle
    /\ cf_round = 0 /\ cf_seen = <<>> /\ cf_result = ""

\* the first page.evaluate: no keyword, return True at once
CfFirstCheck ==
    /\ pc = "cf_check"
    /\ \/ /\ pc' = "cf_raised"
          /\ UNCHANGED cfVars
       \/ \E text \in PageTexts :
          /\ cf_seen' = <<text>>
          /\ IF Challenged(text)
             THEN /\ cf_round' = 1
                  /\ pc' = "cf_sleep"
                  /\ UNCHANGED cf_result
             ELSE /\ cf_result' = "True"
                  /\ pc' = "cf_done"
                  /\ UNCHANGED cf_round
    /\ UNCHANGED OutsideChallenge

\* time.sleep(5)
CfSleep ==
    /\ pc = "cf_sleep"
    /\ pc' = "cf_recheck"
    /\ UNCHANGED <<cfVars, OutsideChallenge>>

\* the page.evaluate of a round: no keyword ends the loop, otherwise the
\* next round begins, or False is returned after the last
CfRecheck ==
    /\ pc = "cf_recheck"
    /\ \/ /\ pc' = "cf_raised"
          /\ UNCHANGED cfVars
       \/ \E text \in PageTexts :
          /\ cf_seen' = Append(cf_seen, text)
          /\ IF ~Challenged(text)
             THEN /\ pc' = "cf_settle"
                  /\ UNCHANGED <<cf_round, cf_result>>
             ELSE IF MoreRounds(cf_round)
             THEN /\ cf_round' = cf_round + 1
                  /\ pc' = "cf_sleep"
                  /\ UNCHANGED cf_result
             ELSE /\ cf_result' = "False"
                  /\ pc' = "cf_done"
                  /\ UNCHANGED cf_round
    /\ UNCHANGED OutsideChallenge

\* page.wait_for_load_state("networkidle"): its timeout is caught
CfSettle ==
    /\ pc = "cf_settle"
    /\ \/ /\ cf_result' = "True"
          /\ pc' = "cf_done"
       \/ /\ pc' = "cf_raised"
          /\ UNCHANGED cf_result
    /\ UNCHANGED <<cf_round, cf_seen, OutsideChallenge>>

NextChallenge == CfFirstCheck \/ CfSleep \/ CfRecheck \/ CfSettle

SpecChallenge == InitChallenge /\ [][NextChallenge]_vars

\* C20: _wait_for_cloudflare ends after at most 7 rounds of sleep and
\* check, 8 checks of the page text in all: True at once if the first
\* check shows no keyword, True at the first round whose check shows
\* none, False after the 7th round that still shows one; a challenge that
\* stays never makes it raise.
C20_BoundedWait ==
    /\ Len(cf_seen) <= 8 /\ cf_round <= 7
    /\ pc \in {"cf_sleep", "cf_recheck"} => cf_round = Len(cf_seen)
    /\ pc \in {"cf_settle", "cf_done"} => cf_round = Len(cf_seen) - 1
    /\ \A i \in 1..(Len(cf_seen) - 1) : Challenged(cf_seen[i])
    /\ pc = "cf_done" =>
          /\ cf_result = "True" <=> ~Challenged(cf_seen[Len(cf_seen)])
          /\ cf_result = "False" <=>
                (Len(cf_seen) = 8 /\ Challenged(cf_seen[8]))
    /\ pc = "cf_raised" => cf_result = ""
    /\ (cf_seen # <<>> /\ ~Challenged(cf_seen[Len(cf_seen)]))
          => pc \in {"cf_done", "cf_settle", "cf_raised"}

C20_Witness ==
    /\ pc = "cf_done" /\ cf_result = "False" /\ Len(cf_seen) = 8


\* =====================================================================
\* The challenge wait inside the browser path
\* =====================================================================

\* the steps of the browser path that extract data or click a theater
ExtractionSteps == {"browser", "click", "intercept", "inpage_events"}

\* C21: in the browser path of a catalog or schedule query of the second
\* chain the challenge wait is performed after the navigation and before
\* any data extraction or click on a theater button, and the steps after
\* it run whatever it returned.
C21_ChallengeWait ==
    method \in ShowtimeMethods =>
        \A j \in 1..Len(steps) :
            steps[j].step \in ExtractionSteps =>
                \E i \in 1..(j - 1) : steps[i].step = "cf_wait"


\* =====================================================================
\* goto_safe
\* =====================================================================

\* the timeout errors among the outcomes of page.goto
TimedOut(r) == r = ErrTimeout

\* goto_safe has returned or raised
GotoOver == goto_out # ""

\* C22: goto_safe makes at most two navigation attempts; the second one,
\* waiting for DOM-ready only, is made if and only if the first one, waiting
\* for the load event, raised a timeout error; any other error of the first
\* attempt is raised again with no second attempt; an error of the second
\* attempt reaches the caller and there is no third attempt.
C22_GotoSafe ==
    /\ Len(goto_calls) <= 2
    /\ goto_calls # <<>> => goto_calls[1].wait_until = "load"
    /\ Len(goto_calls) = 2 =>
           /\ goto_calls[2].wait_until = "domcontentloaded"
           /\ TimedOut(goto_calls[1].outcome)
    /\ GotoOver =>
           /\ goto_calls # <<>>
           /\ TimedOut(goto_calls[1].outcome) => Len(goto_calls) = 2
           /\ goto_out = "raised" <=>
                  goto_calls[Len(goto_calls)].outcome # NoError
           /\ goto_out = "returned" <=>
                  goto_calls[Len(goto_calls)].outcome = NoError

\* the second attempt was made and its error reached the caller
C22_Witness ==
    /\ Len(goto_calls) = 2
    /\ goto_out = "raised"
    /\ goto_calls[2].outcome = ErrAborted


\* =====================================================================
\* create_stealth_page
\* =====================================================================

\* the launches that gave a browser
Launched == {i \in StepsOf(LaunchSteps) : steps[i].yielded}

\* create_stealth_page has returned a page
PageReturned == \E i \in StepsOf({"new_page"}) : steps[i].yielded

\* C23: in the cloud the launch of the preferred channel is never attempted
\* and exactly one off-screen launch is; locally the preferred channel is
\* launched first and the off-screen launch is attempted if and only if the
\* first launch raised; when create_stealth_page returns, exactly one browser
\* has been launched; a failure of the off-screen launch reaches the caller.
C23_LaunchEscalation ==
    LET edge == StepsOf({"launch_edge"})
        hidden == StepsOf({"launch_hidden"})
        after == StepsOf({"launch_hidden", "new_page"})
    IN  /\ Cardinality(edge) <= 1 /\ Cardinality(hidden) <= 1
        /\ is_cloud =>
               /\ edge = {}
               /\ after # {} => Cardinality(hidden) = 1
        /\ ~is_cloud =>
               /\ \A i \in after : \E j \in edge : j < i
               /\ hidden # {} => Failed({"launch_edge"})
               /\ Failed({"launch_edge"}) /\ pc # "launch_hidden" =>
                      hidden # {}
        /\ PageReturned => Cardinality(Launched) = 1
        /\ Failed({"launch_hidden"}) => pc = "raised"

\* locally the first launch raised, the off-screen launch gave the browser
\* and the page was returned
C23_Witness ==
    /\ ~is_cloud
    /\ Failed({"launch_edge"})
    /\ PageReturned
    /\ Cardinality(Launched) = 1


\* =====================================================================
\* showtime_api_get (utils/http_utils.py)
\* =====================================================================

\* a variant: the relay is used whenever the cloud flag is set
use_worker_cloudOnly(cloud, wurl) == cloud

\* if config.IS_CLOUD and config.SHOWTIME_WORKER_URL
use_worker(cloud, wurl) == cloud /\ wurl # ""

\* the arguments of cffi_requests.get on the two paths; an absent header
\* is the empty string
api_request(cloud, wurl, wsecret, url) ==
    IF use_worker(cloud, wurl)
    THEN [to |-> wurl, target |-> url,
          auth |-> IF wsecret # "" THEN wsecret ELSE "",
          api_headers |-> FALSE, impersonate |-> "", timeout |-> 20]
    ELSE [to |-> url, target |-> "", auth |-> "", api_headers |-> TRUE,
          impersonate |-> "chrome131", timeout |-> 15]

\* resp.raise_for_status() raises for the client and server error statuses
raise_for_status(status) == status >= 400

WorkerUrls == {"", "https://showtime-proxy.workers.dev"}
WorkerSecrets == {"", "s3cret"}
ApiUrls ==
    {"https://capi.showtimes.com.tw/1/app/bootstrap?appVersion=2.9.200",
     "https://capi.showtimes.com.tw/1/events/listForProgram/M1",
     "https://capi.showtimes.com.tw/1/venues/ids/1,2"}
\* the statuses the upstream and the relay answer with, redirects followed
Statuses == {200, 201, 403, 404, 429, 500, 503}

InitHttp ==
    /\ pc = "http_send"
    /\ today = CacheDay
    /\ DateIdle /\ FilterIdle /\ EventIdle /\ CacheIdle /\ ChallengeIdle
    /\ GotoIdle /\ WalkIdle /\ ViewIdle
    /\ is_cloud \in BOOLEAN
    /\ method = "" /\ browser = "none" /\ steps = <<>>
    /\ movies = <<>> /\ cinemas = <<>> /\ todo = <<>> /\ ret = <<>>
    /\ worker_url \in WorkerUrls
    /\ worker_secret \in WorkerSecrets
    /\ http_url \in ApiUrls
    /\ http_request = NoRequest /\ http_status = 0 /\ http_out = ""

\* cffi_requests.get(...): the request leaves; a connection failure raises
ApiSend ==
    /\ pc = "http_send"
    /\ http_request' = api_request(is_cloud, worker_url, worker_secret,
                                   http_url)
    /\ \/ pc' = "http_sent" /\ http_out' = http_out
       \/ pc' = "http_done" /\ http_out' = "connection_error"
    /\ UNCHANGED <<worker_url, worker_secret, http_url, http_status,
                   OutsideHttp>>

\* resp.raise_for_status(); return resp.json()
ApiRespond ==
    /\ pc = "http_sent"
    /\ \E status \in Statuses, is_json \in BOOLEAN :
        /\ http_status' = status
        /\ http_out' = IF raise_for_status(status) THEN "http_error"
                       ELSE IF is_json THEN "json" ELSE "json_error"
    /\ pc' = "http_done"
    /\ UNCHANGED <<worker_url, worker_secret, http_url, http_request,
                   OutsideHttp>>

NextHttp == ApiSend \/ ApiRespond

SpecHttp == InitHttp /\ [][NextHttp]_vars

MaxSiblings == 4

\* <strong class="RealShowDate LangTW">, its English twin, a block of
\* session times, any other element
DateEl(text) ==
    [classes |-> {"RealShowDate", "LangTW"}, text |-> text, times |-> <<>>]
EnglishEl ==
    [classes |-> {"RealShowDate", "LangEN"}, text |-> <<>>, times |-> <<>>]
SessionEl(found_times) ==
    [classes |-> {"SessionTimeInfo"}, text |-> <<>>, times |-> found_times]
OtherEl == [classes |-> {}, text |-> <<>>, times |-> <<>>]

Elements ==
    {DateEl(text) : text \in DateTags}
        \cup {SessionEl(ts) : ts \in {<<>>, <<T1000>>, <<T1215, T0930>>}}
        \cup {EnglishEl, OtherEl}

\* parent_div.select("strong.RealShowDate.LangTW")
is_date_tag(el) == {"RealShowDate", "LangTW"} \subseteq el.classes

\* a variant: the walk does not stop at a date label
stops_walk_neverAtDate(classes) == FALSE

\* "RealShowDate" in classes and "LangTW" in classes
stops_walk(classes) == "RealShowDate" \in classes /\ "LangTW" \in classes

\* el.find_next_sibling(), as an index, 0 for None
find_next_sibling(sibs, i) == IF i < Len(sibs) THEN i + 1 ELSE 0

\* the date tags after index i, in document order
TagsAfter(sibs, i) == {j \in (i + 1)..Len(sibs) : is_date_tag(sibs[j])}

Min(S) == CHOOSE x \in S : \A y \in S : x <= y

InitWalk ==
    /\ pc = "walk_tag"
    /\ today = CacheDay
    /\ DateIdle /\ FilterIdle /\ EventIdle /\ CacheIdle /\ AcquireIdle
    /\ ChallengeIdle /\ GotoIdle /\ HttpIdle /\ ViewIdle
    /\ siblings \in SeqsUpTo(Elements, MaxSiblings)
    /\ tag_at = 0 /\ next_elem = 0 /\ times_list = <<>>
    /\ date_times = <<>> /\ consumed = <<>>

\* for date_tag in date_tags: times_list = []; next_elem =
\* date_tag.find_next_sibling()
WalkNextTag ==
    /\ pc = "walk_tag"
    /\ IF TagsAfter(siblings, tag_at) = {}
       THEN /\ pc' = "walk_done"
            /\ UNCHANGED <<tag_at, next_elem, times_list>>
       ELSE LET tag == Min(TagsAfter(siblings, tag_at))
            IN  /\ tag_at' = tag
                /\ times_list' = <<>>
                /\ next_elem' = find_next_sibling(siblings, tag)
                /\ pc' = "walk_step"
    /\ UNCHANGED <<siblings, date_times, consumed, OutsideWalk>>

\* one turn of "while next_elem"
WalkStep ==
    /\ pc = "walk_step"
    /\ IF next_elem = 0
       THEN /\ pc' = "walk_record"
            /\ UNCHANGED <<next_elem, times_list, consumed>>
       ELSE LET el == siblings[next_elem]
            IN  IF "SessionTimeInfo" \in el.classes
                THEN /\ times_list' = times_list \o el.times
                     /\ consumed' = Append(consumed, <<tag_at, next_elem>>)
                     /\ pc' = "walk_record"
                     /\ UNCHANGED next_elem
                ELSE IF stops_walk(el.classes)
                THEN /\ pc' = "walk_record"
                     /\ UNCHANGED <<next_elem, times_list, consumed>>
                ELSE /\ next_elem' = find_next_sibling(siblings, next_elem)
                     /\ pc' = "walk_step"
                     /\ UNCHANGED <<times_list, consumed>>
    /\ UNCHANGED <<siblings, tag_at, date_times, OutsideWalk>>

\* if times_list: date_times[clean_date] = sorted(list(set(times_list)))
WalkRecord ==
    /\ pc = "walk_record"
    /\ date_times' =
           IF times_list # <<>>
           THEN dict_set(date_times, clean_date(siblings[tag_at].text),
                         sorted_unique(times_list))
           ELSE date_times
    /\ pc' = "walk_tag"
    /\ UNCHANGED <<siblings, tag_at, next_elem, times_list, consumed,
                   OutsideWalk>>

NextWalk == WalkNextTag \/ WalkStep \/ WalkRecord

SpecWalk == InitWalk /\ [][NextWalk]_vars

\* the first session block or date label after index i, 0 when there is none
StopAfter(i) ==
    LET S == {j \in (i + 1)..Len(siblings) :
                 \/ "SessionTimeInfo" \in siblings[j].classes
                 \/ is_date_tag(siblings[j])}
    IN  IF S = {} THEN 0 ELSE Min(S)

\* the times of the block that belongs to the date label at index i
OwnTimes(i) ==
    IF StopAfter(i) # 0 /\ ~is_date_tag(siblings[StopAfter(i)])
    THEN siblings[StopAfter(i)].times ELSE <<>>

TimeSet(ts) == {ts[k] : k \in 1..Len(ts)}

\* the date labels with a given clean text that have times of their own
Owners(label) ==
    {i \in TagsAfter(siblings, 0) :
        clean_date(siblings[i].text) = label /\ OwnTimes(i) # <<>>}

\* what the walk has read and recorded is what belongs to each date label
WalkExact ==
    /\ next_elem \in 0..Len(siblings)
    /\ next_elem # 0 => next_elem > tag_at
    /\ \A a, b \in 1..Len(consumed) : consumed[a][1] = consumed[b][1] => a = b
    /\ \A a \in 1..Len(consumed) :
           /\ is_date_tag(siblings[consumed[a][1]])
           /\ consumed[a][2] = StopAfter(consumed[a][1])
    /\ pc = "walk_record" => TimeSet(times_list) = TimeSet(OwnTimes(tag_at))
    /\ pc = "walk_done" =>
           \A text \in DateTags :
               LET label == clean_date(text)
               IN  /\ dict_has(date_times, label) <=> Owners(label) # {}
                   /\ dict_has(date_times, label) =>
                          \E i \in Owners(label) :
                              TimeSet(dict_get(date_times, label)) =
                                  TimeSet(OwnTimes(i))

\* every turn of the walk that does not end it moves on to a later
\* sibling or to None, which ends it at the next turn, and every round of
\* the loop moves on to a later date label
WalkAdvances ==
    /\ pc = "walk_step" /\ pc' = "walk_step" =>
           /\ next_elem # 0
           /\ next_elem' = 0 \/ next_elem' > next_elem
    /\ pc = "walk_tag" /\ pc' = "walk_step" => tag_at' > tag_at

\* C25: for each date label the walk over the following siblings ends, and
\* it collects the times of at most one session block: the first one reached
\* before any other date label; when the next date label or the end of the
\* siblings comes first, nothing is collected and the date is not recorded;
\* no time is recorded under a date label it does not belong to.
C25_SiblingWalk == []WalkExact /\ [][WalkAdvances]_vars

\* a date label without a block of its own before the next date label is
\* left out, the next one is recorded with its own times
C25_Witness ==
    /\ pc = "walk_done"
    /\ Len(siblings) = 4
    /\ is_date_tag(siblings[1]) /\ is_date_tag(siblings[2])
    /\ siblings[3] = EnglishEl
    /\ siblings[4] = SessionEl(<<T1215, T0930>>)
    /\ ~dict_has(date_times, clean_date(siblings[1].text))
    /\ dict_has(date_times, clean_date(siblings[2].text))


\* =====================================================================
\* process_events: the conversion to the local zone
\* =====================================================================

\* minutes of a UTC instant since the start of day 0 of the calendar
UtcMinutes(dt) ==
    toordinal(<<dt[1], dt[2], dt[3]>>) * 1440 + dt[4] * 60 + dt[5]

\* the same instant on the clock of UTC+8
ShiftedMinutes(dt) == UtcMinutes(dt) + 8 * 60

\* the calendar day on which the shifted instant falls
ShiftedDay(dt) ==
    CHOOSE d \in {<<dt[1], dt[2], dt[3]>>, <<dt[1], dt[2], dt[3] + 1>>,
                  <<dt[1], dt[2] + 1, 1>>, <<dt[1] + 1, 1, 1>>} :
        /\ ValidDate(d[1], d[2], d[3])
        /\ toordinal(d) = ShiftedMinutes(dt) \div 1440

\* "HH:MM" of the shifted instant, with the format tag in brackets if any
ShiftedDisplay(e) ==
    LET mins == ShiftedMinutes(e.startedAt) % 1440
        hhmm == Clock(mins \div 60, mins % 60)
    IN  IF e.format = <<>> THEN hhmm
        ELSE hhmm \o <<32, 91>> \o e.format \o <<93>>

ShiftedLabel(e) == format_date_with_weekday(ShiftedDay(e.startedAt))

\* C26: every recorded event is under the date label and the HH:MM of its
\* start shifted from UTC to UTC+8: from 16:00 UTC on it is under the next
\* calendar day, across the end of a month and of a year, with the weekday
\* of that day; the display string is "HH:MM", or "HH:MM [format]" when the
\* event has a format tag; nothing else is in the result.
C26_ZoneShift ==
    pc = "processed" =>
        /\ \A e \in EventSet : Recorded(e) =>
               /\ dict_has(results, EventCinema(e))
               /\ dict_has(dict_get(results, EventCinema(e)), ShiftedLabel(e))
               /\ <<EventCinema(e), ShiftedLabel(e), ShiftedDisplay(e)>>
                      \in ResultTriples
        /\ \A x \in ResultTriples :
               \E e \in EventSet :
                   /\ Recorded(e)
                   /\ x = <<EventCinema(e), ShiftedLabel(e), ShiftedDisplay(e)>>

\* "1月1日(五)", "00:05", "2月1日(日)", "00:00"
NewYearLabel == <<49, 26376, 49, 26085, 40, 20116, 41>>
NewYearClock == <<48, 48, 58, 48, 53>>
FebruaryLabel == <<50, 26376, 49, 26085, 40, 26085, 41>>
MidnightClock == <<48, 48, 58, 48, 48>>

\* an event of 31 December 16:05 UTC is under 1 January 00:05, one of
\* 31 January 16:00 UTC under 1 February 00:00
C26_Witness ==
    /\ pc = "processed"
    /\ \E c \in {Taipei, Kaohsiung, Showtime, TaipeiCinema} :
           /\ <<c, NewYearLabel, NewYearClock>> \in ResultTriples
           /\ <<c, FebruaryLabel, MidnightClock>> \in ResultTriples


\* =====================================================================
\* Malformed events in a schedule query of the second chain
\* =====================================================================

\* the events of the buffer that are well-formed and match a selected theater
GoodEvents ==
    {e \in {captured_events[i] : i \in 1..Len(captured_events)} :
        /\ e.startedAt \notin {None, BadStart}
        /\ match_cinema(CinemaName(e, captured_venues), selected_cinemas)
               # NoCinema}

\* C27: in a schedule query of the second chain one malformed raw event is
\* skipped alone: every well-formed event that matches a selected theater
\* is in the returned schedule, in the cloud and locally.
C27_EventIsolation ==
    (method = ST_SCHEDULE /\ Done /\ StepsOf({"process"}) # {}) =>
        /\ pc = "returned"
        /\ \A e \in GoodEvents :
               LET matched == match_cinema(CinemaName(e, captured_venues),
                                           selected_cinemas)
               IN  /\ dict_has(ret, matched)
                   /\ dict_has(dict_get(ret, matched), EventLabel(e))


\* =====================================================================
\* show_results (app.py): date-filtered views of a cached schedule.
\* Dicts and lists are objects in memory: a dict holds, per key, the
\* address of a dict or of a list.
\* =====================================================================

MaxViews == 2

\* the objects of a schedule {theater: {label: [times]}}: the dict of the
\* theaters at address 1, the dicts of the labels after it
RECURSIVE alloc_maps(_, _, _, _)
alloc_maps(res, k, dicts, lists) ==
    IF k > Len(res) THEN <<dicts, lists>>
    ELSE LET tm == res[k][2]
             refs == [i \in 1..Len(tm) |-> <<tm[i][1], Len(lists) + i>>]
             objs == [i \in 1..Len(tm) |-> tm[i][2]]
         IN  alloc_maps(res, k + 1, Append(dicts, refs), lists \o objs)

alloc(res) ==
    alloc_maps(res, 1, << [k \in 1..Len(res) |-> <<res[k][1], 1 + k>>] >>,
               <<>>)

\* the value of the label dict at an address, and of a schedule
value_of_map(dicts, lists, a) ==
    [i \in 1..Len(dicts[a]) |-> <<dicts[a][i][1], lists[dicts[a][i][2]]>>]

value_of(dicts, lists, a) ==
    [k \in 1..Len(dicts[a]) |->
        <<dicts[a][k][1], value_of_map(dicts, lists, dicts[a][k][2])>>]

\* a variant: the entries are stored into the input dict
store_target_input(tm, fresh) == tm

\* filtered[date_str] = times stores into the dict made by "filtered = {}"
store_target(tm, fresh) == fresh

\* the loop of filter_by_date, on the objects: the entry stored holds the
\* address of the input's list
RECURSIVE filter_store(_, _, _, _, _)
filter_store(dicts, items, target, mode, value) ==
    IF items = <<>> THEN dicts
    ELSE filter_store(
             [dicts EXCEPT ![target] =
                 filter_entry(dicts[target], items[1][1], items[1][2], mode,
                              value)],
             Tail(items), target, mode, value)

\* filter_by_date on the objects: <<memory afterwards, address returned>>
filter_by_date_at(dicts, tm, mode, value) ==
    IF mode = "all" THEN <<dicts, tm>>
    ELSE LET fresh == Len(dicts) + 1
         IN  <<filter_store(Append(dicts, <<>>), dicts[tm],
                            store_target(tm, fresh), mode, value),
               fresh>>

\* for cinema_name, times_map in results.items():
\*     filtered_results[cinema_name] = filter_by_date(times_map, ...)
RECURSIVE show_loop(_, _, _, _, _)
show_loop(dicts, items, out, mode, value) ==
    IF items = <<>> THEN dicts
    ELSE LET r == filter_by_date_at(dicts, items[1][2], mode, value)
         IN  show_loop([r[1] EXCEPT ![out] =
                           dict_set(r[1][out], items[1][1], r[2])],
                       Tail(items), out, mode, value)

\* the schedules the cache may hold
ViewMapsA ==
    {SampleMap,
     <<  <<Label(12, 31, 4), <<Clock(23, 50)>>>>,
         <<UnknownLabel, <<Clock(10, 0)>>>>  >>}
ViewMapsB ==
    {<<>>, << <<Label(2, 7, 6), <<Clock(14, 0)>>>> >>}
CachedSchedules ==
    {<<>>}
        \cup {<< <<Taipei, a>> >> : a \in ViewMapsA}
        \cup {<< <<Taipei, a>>, <<Kaohsiung, b>> >> :
                 a \in ViewMapsA, b \in ViewMapsB}

InitView ==
    /\ pc = "view"
    /\ today \in Todays
    /\ DateIdle /\ FilterIdle /\ EventIdle /\ CacheIdle /\ AcquireIdle
    /\ ChallengeIdle /\ GotoIdle /\ HttpIdle /\ WalkIdle
    /\ snapshot \in CachedSchedules
    /\ dict_heap = alloc(snapshot)[1]
    /\ list_heap = alloc(snapshot)[2]
    /\ cached_at = 1
    /\ view_at = 0 /\ view_mode = "all" /\ view_value = None /\ views = 0

\* show_results(results, ..., date_mode_key, date_filter_value): with an
\* empty schedule nothing is filtered
Show(mode, value) ==
    /\ pc = "view" /\ views < MaxViews
    /\ views' = views + 1
    /\ view_mode' = mode
    /\ view_value' = value
    /\ IF dict_heap[cached_at] = <<>>
       THEN view_at' = 0 /\ dict_heap' = dict_heap
       ELSE /\ view_at' = Len(dict_heap) + 1
            /\ dict_heap' = show_loop(Append(dict_heap, <<>>),
                                      dict_heap[cached_at],
                                      Len(dict_heap) + 1, mode, value)
    /\ UNCHANGED <<pc, list_heap, cached_at, snapshot, OutsideView>>

ShowAll == Show("all", None)
ShowSingle == \E target \in TargetDates : Show("single", target)
ShowRange == \E r \in TargetRanges : Show("range", r)

NextView == ShowAll \/ ShowSingle \/ ShowRange

SpecView == InitView /\ [][NextView]_vars

\* C28: filter_by_date changes neither its input map nor a time list, in
\* any mode: after any sequence of date-filtered views the cached schedule
\* is what it was, and each view is the filter of the complete cached
\* schedule.
C28_InputUntouched ==
    /\ value_of(dict_heap, list_heap, cached_at) = snapshot
    /\ list_heap = alloc(snapshot)[2]
    /\ \A a \in 1..Len(alloc(snapshot)[1]) :
           dict_heap[a] = alloc(snapshot)[1][a]
    /\ view_at # 0 =>
           value_of(dict_heap, list_heap, view_at) =
               [k \in 1..Len(snapshot) |->
                   <<snapshot[k][1],
                     filter_by_date(snapshot[k][2], view_mode, view_value)>>]

\* a second view, wider than the first
C28_Witness ==
    /\ views = 2
    /\ view_mode = "all"
    /\ view_at # 0
    /\ value_of(dict_heap, list_heap, view_at) = snapshot
    /\ Len(snapshot) = 2
    /\ \E a \in 1..Len(dict_heap) :
           a > Len(snapshot) + 1 /\ a # view_at /\ dict_heap[a] = <<>>

\* ---------------------------------------------------------------------
\* A failed catalog acquisition and the cache
\* ---------------------------------------------------------------------

\* the entry that an earlier catalog call stored when every strategy had
\* failed: still inside the ttl at the time of the last call, not cleared
StoredFailure(h) ==
    /\ h.value = "empty"
    /\ ~h.cleared
    /\ last_call.at - h.stored < StatedTTL(cache_fn)

\* C29: after a catalog call that returned an empty catalog because every
\* strategy failed, the next catalog call within the ttl attempts the
\* acquisition again and does not return the stored empty catalog.
C29_FailureForgotten ==
    (pc = "called" /\ IsCatalog(cache_fn)) =>
        \A h \in last_call.before : StoredFailure(h) => last_call.acquired

\* what the wrappers do with it: the stored empty catalog is served like
\* any other entry
FailureServed ==
    (pc = "called" /\ IsCatalog(cache_fn)) =>
        \A h \in last_call.before :
            StoredFailure(h) =>
                ~last_call.acquired /\ last_call.value = "empty"

\* ---------------------------------------------------------------------
\* Events of venues without venue data
\* ---------------------------------------------------------------------

\* the venue map has no entry for the event's venue id, or the entry's name
\* is empty
MissingVenue(e) ==
    \/ ~dict_has(captured_venues, e.venueId)
    \/ dict_get(captured_venues, e.venueId) = <<>>

SelectedNames == {selected_cinemas[i] : i \in 1..Len(selected_cinemas)}

\* C30: an event whose venue id has no entry in the venue map, or whose
\* venue entry has an empty name, is absent from the result, for every
\* non-empty list of non-empty selected theater names: every time in the
\* result is that of an event with a named venue.
C30_NoMissingVenueMatch ==
    (pc = "processed" /\ selected_cinemas # <<>>
        /\ \A s \in SelectedNames : s # <<>>) =>
        ResultTriples \subseteq
            {<<x[2], EventLabel(x[1]), EventDisplay(x[1])>> :
                x \in {y \in EventSet \X SelectedNames :
                          /\ y[1].startedAt # None
                          /\ ~MissingVenue(y[1])}}

====
